---------------------------- MODULE Spec2Model ----------------------------
(***************************************************************************)
(* Model of the French debt-collection voice agent                        *)
(* (Sumhack/french_voice_agent): the session object                       *)
(* FrenchDebtCollectionAgent of src/agent.py, its configuration globals,  *)
(* the prompt builder and the two keyword predicates.                     *)
(*                                                                         *)
(* Text is modelled as a sequence of characters, one one-character string *)
(* per element, so that str.lower(), the `in` substring test, "\n".join   *)
(* and f-string interpolation are computed as Python computes them.  A    *)
(* character outside ASCII is named by its base letter and its accent     *)
(* ("e-acute", "a-grave", "E-circ"): it is still one element, one         *)
(* character.                                                              *)
(***************************************************************************)
EXTENDS Integers, Sequences, FiniteSets, TLC

VARIABLES
    MAX_HISTORY,            \* agent.py:43, read from the configuration
    CLOSING_WORDS,          \* agent.py:44, read from the configuration
    pc,                     \* where the session is: "new", "init_failed",
                            \* "idle", "calling" or "interrupted"
    client_config,          \* self.client_config
    system_prompt,          \* self.system_prompt
    conversation_history,   \* self.conversation_history
    started,                \* the caller has called start()
    user_message,           \* argument of the current / last generate_response
    context,                \* local `context` of generate_response (line 192)
    full_prompt,            \* local `full_prompt`, the text sent to the backend
    ret,                    \* what the last call returned or raised
    backend_calls,          \* number of model.generate_content calls made
    turns,                  \* number of generate_response calls begun
    at_entry,               \* history and backend_calls when the current /
                            \* last generate_response was entered
    user_input,             \* the text the caller holds for a predicate
    \* the test harness (src/test_harness.py)
    hpc,                    \* where main() is
    GEMINI_API_KEY,         \* the backend credential of the environment
    store_keys,             \* list(CLIENTS.keys()) of the configuration loaded
    args,                   \* the parsed command line: client, iterations
    clients,                \* local `clients` of main / run_all_tests
    loop,                   \* position of the three loops of run_all_tests
    current_test,           \* local `current_test` of run_all_tests
    result,                 \* the TestResult of the test in progress
    all_results,            \* local `all_results` / `results`
    analysis,               \* what analyze_results returned
    exit_status,            \* the status the process ended with
    \* the web interface (src/gradio_app.py)
    agents,                 \* the VoiceAgent objects created so far
    current_agent,          \* the module global `current_agent`
    created_by,             \* for each caller, the VoiceAgent it created last
    in_flight,              \* the process_message calls that wait for the backend
    rpc,                    \* position of run_agent, "off" when none runs
    inputs                  \* the lines run_agent has read so far

\* the state of the harness and of the web interface: the session's own
\* operations leave it alone
harnessVars == <<hpc, GEMINI_API_KEY, store_keys, args, clients, loop, current_test,
                 result, all_results, analysis, exit_status>>

gradioVars == <<agents, current_agent, created_by, in_flight>>

loopVars == <<rpc, inputs>>

callerVars == <<harnessVars, gradioVars, loopVars>>

\* the state of one session of agent.py and its configuration
sessionVars == <<MAX_HISTORY, CLOSING_WORDS, pc, client_config, system_prompt,
                 conversation_history, started, user_message, context, full_prompt,
                 ret, backend_calls, turns, at_entry, user_input>>

vars == <<sessionVars, callerVars>>

(***************************************************************************)
(* Bounds of the model.                                                    *)
(***************************************************************************)
\* generate_response calls per session
MaxTurns == 2
\* length of the generated texts handed to the predicates
MaxTextLen == 3
\* length of the generated closing phrases
MaxPhraseLen == 2
\* max_history values 0..MaxHistoryBound are tried, and the default
MaxHistoryBound == 2

(***************************************************************************)
(* String literals of the source, and the sample texts used as inputs.     *)
(***************************************************************************)
\* 'Client: '
PREFIX_CLIENT ==
    <<"C", "l", "i", "e", "n", "t", ":", " ">>

\* 'Agent: '
PREFIX_AGENT ==
    <<"A", "g", "e", "n", "t", ":", " ">>

\* '\n'
NEWLINE ==
    <<"\n">>

\* 'formal'
TONE_FORMAL ==
    <<"f", "o", "r", "m", "a", "l">>

\* 'professional'
TONE_PROFESSIONAL ==
    <<"p", "r", "o", "f", "e", "s", "s", "i", "o", "n", "a", "l">>

\* 'collaborative'
TONE_COLLABORATIVE ==
    <<"c", "o", "l", "l", "a", "b", "o", "r", "a", "t", "i", "v", "e">>

\* 'medium'
FORMALITY_DEFAULT ==
    <<"m", "e", "d", "i", "u", "m">>

\* 'direct'
PHRASING_DEFAULT ==
    <<"d", "i", "r", "e", "c", "t">>

\* 'Bonjour. Je vous appelle de la part de '
GREETING_FORMAL_PRE ==
    <<"B", "o", "n", "j", "o", "u", "r", ".", " ", "J", "e", " ", "v", "o", "u", "s", " ",
    "a", "p", "p", "e", "l", "l", "e", " ", "d", "e", " ", "l", "a", " ", "p", "a", "r", "t",
    " ", "d", "e", " ">>

\* ". Comment puis-je vous aider aujourd'hui?"
GREETING_FORMAL_POST ==
    <<".", " ", "C", "o", "m", "m", "e", "n", "t", " ", "p", "u", "i", "s", "-", "j", "e",
    " ", "v", "o", "u", "s", " ", "a", "i", "d", "e", "r", " ", "a", "u", "j", "o", "u", "r",
    "d", "'", "h", "u", "i", "?">>

\* "Bonjour, c'est "
GREETING_PROFESSIONAL_PRE ==
    <<"B", "o", "n", "j", "o", "u", "r", ",", " ", "c", "'", "e", "s", "t", " ">>

\* '. Comment puis-je vous aider?'
GREETING_PROFESSIONAL_POST ==
    <<".", " ", "C", "o", "m", "m", "e", "n", "t", " ", "p", "u", "i", "s", "-", "j", "e",
    " ", "v", "o", "u", "s", " ", "a", "i", "d", "e", "r", "?">>

\* 'Bonjour. Je suis avec '
GREETING_COLLABORATIVE_PRE ==
    <<"B", "o", "n", "j", "o", "u", "r", ".", " ", "J", "e", " ", "s", "u", "i", "s", " ",
    "a", "v", "e", "c", " ">>

\* '. Comment puis-je vous aider?'
GREETING_COLLABORATIVE_POST ==
    <<".", " ", "C", "o", "m", "m", "e", "n", "t", " ", "p", "u", "i", "s", "-", "j", "e",
    " ", "v", "o", "u", "s", " ", "a", "i", "d", "e", "r", "?">>

\* 'Non, je suis un conseiller professionnel de '
ROBOT_FORMAL_PRE ==
    <<"N", "o", "n", ",", " ", "j", "e", " ", "s", "u", "i", "s", " ", "u", "n", " ", "c",
    "o", "n", "s", "e", "i", "l", "l", "e", "r", " ", "p", "r", "o", "f", "e", "s", "s", "i",
    "o", "n", "n", "e", "l", " ", "d", "e", " ">>

\* '. Je suis ici pour vous aider avec votre compte. Comment puis-je vous assister?'
ROBOT_FORMAL_POST ==
    <<".", " ", "J", "e", " ", "s", "u", "i", "s", " ", "i", "c", "i", " ", "p", "o", "u",
    "r", " ", "v", "o", "u", "s", " ", "a", "i", "d", "e", "r", " ", "a", "v", "e", "c", " ",
    "v", "o", "t", "r", "e", " ", "c", "o", "m", "p", "t", "e", ".", " ", "C", "o", "m", "m",
    "e", "n", "t", " ", "p", "u", "i", "s", "-", "j", "e", " ", "v", "o", "u", "s", " ", "a",
    "s", "s", "i", "s", "t", "e", "r", "?">>

\* 'Non, je suis un vrai conseiller de '
ROBOT_PROFESSIONAL_PRE ==
    <<"N", "o", "n", ",", " ", "j", "e", " ", "s", "u", "i", "s", " ", "u", "n", " ", "v",
    "r", "a", "i", " ", "c", "o", "n", "s", "e", "i", "l", "l", "e", "r", " ", "d", "e", " ">>

\* '. Je suis là pour discuter de votre compte. Comment puis-je vous aider?'
ROBOT_PROFESSIONAL_POST ==
    <<".", " ", "J", "e", " ", "s", "u", "i", "s", " ", "l", "a-grave", " ", "p", "o", "u",
    "r", " ", "d", "i", "s", "c", "u", "t", "e", "r", " ", "d", "e", " ", "v", "o", "t", "r",
    "e", " ", "c", "o", "m", "p", "t", "e", ".", " ", "C", "o", "m", "m", "e", "n", "t", " ",
    "p", "u", "i", "s", "-", "j", "e", " ", "v", "o", "u", "s", " ", "a", "i", "d", "e", "r",
    "?">>

\* 'Non, absolument! Je suis une personne réelle de '
ROBOT_COLLABORATIVE_PRE ==
    <<"N", "o", "n", ",", " ", "a", "b", "s", "o", "l", "u", "m", "e", "n", "t", "!", " ",
    "J", "e", " ", "s", "u", "i", "s", " ", "u", "n", "e", " ", "p", "e", "r", "s", "o", "n",
    "n", "e", " ", "r", "e-acute", "e", "l", "l", "e", " ", "d", "e", " ">>

\* '. Je suis ici pour trouver une solution avec vous. Comment je peux vous aider?'
ROBOT_COLLABORATIVE_POST ==
    <<".", " ", "J", "e", " ", "s", "u", "i", "s", " ", "i", "c", "i", " ", "p", "o", "u",
    "r", " ", "t", "r", "o", "u", "v", "e", "r", " ", "u", "n", "e", " ", "s", "o", "l", "u",
    "t", "i", "o", "n", " ", "a", "v", "e", "c", " ", "v", "o", "u", "s", ".", " ", "C", "o",
    "m", "m", "e", "n", "t", " ", "j", "e", " ", "p", "e", "u", "x", " ", "v", "o", "u", "s",
    " ", "a", "i", "d", "e", "r", "?">>

\* "Une erreur s'est produite. Pouvez-vous répéter, s'il vous plaît?"
error_msg ==
    <<"U", "n", "e", " ", "e", "r", "r", "e", "u", "r", " ", "s", "'", "e", "s", "t", " ",
    "p", "r", "o", "d", "u", "i", "t", "e", ".", " ", "P", "o", "u", "v", "e", "z", "-", "v",
    "o", "u", "s", " ", "r", "e-acute", "p", "e-acute", "t", "e", "r", ",", " ", "s", "'",
    "i", "l", " ", "v", "o", "u", "s", " ", "p", "l", "a", "i-circ", "t", "?">>

\* 'êtes-vous un robot'
KW_01 ==
    <<"e-circ", "t", "e", "s", "-", "v", "o", "u", "s", " ", "u", "n", " ", "r", "o", "b",
    "o", "t">>

\* 'vous êtes un robot'
KW_02 ==
    <<"v", "o", "u", "s", " ", "e-circ", "t", "e", "s", " ", "u", "n", " ", "r", "o", "b",
    "o", "t">>

\* "c'est un robot"
KW_03 ==
    <<"c", "'", "e", "s", "t", " ", "u", "n", " ", "r", "o", "b", "o", "t">>

\* 'automated'
KW_04 ==
    <<"a", "u", "t", "o", "m", "a", "t", "e", "d">>

\* 'automatisé'
KW_05 ==
    <<"a", "u", "t", "o", "m", "a", "t", "i", "s", "e-acute">>

\* 'intelligence artificielle'
KW_06 ==
    <<"i", "n", "t", "e", "l", "l", "i", "g", "e", "n", "c", "e", " ", "a", "r", "t", "i",
    "f", "i", "c", "i", "e", "l", "l", "e">>

\* 'ia?'
KW_07 ==
    <<"i", "a", "?">>

\* 'chatbot'
KW_08 ==
    <<"c", "h", "a", "t", "b", "o", "t">>

\* 'bot?'
KW_09 ==
    <<"b", "o", "t", "?">>

\* 'real person'
KW_10 ==
    <<"r", "e", "a", "l", " ", "p", "e", "r", "s", "o", "n">>

\* 'vraie personne'
KW_11 ==
    <<"v", "r", "a", "i", "e", " ", "p", "e", "r", "s", "o", "n", "n", "e">>

\* 'human'
KW_12 ==
    <<"h", "u", "m", "a", "n">>

\* 'humain'
KW_13 ==
    <<"h", "u", "m", "a", "i", "n">>

\* 'RÔLE\nVous êtes un conseiller professionnel du service clientèle de '
PROMPT_ROLE ==
    <<"R", "O-circ", "L", "E", "\n", "V", "o", "u", "s", " ", "e-circ", "t", "e", "s", " ",
    "u", "n", " ", "c", "o", "n", "s", "e", "i", "l", "l", "e", "r", " ", "p", "r", "o", "f",
    "e", "s", "s", "i", "o", "n", "n", "e", "l", " ", "d", "u", " ", "s", "e", "r", "v", "i",
    "c", "e", " ", "c", "l", "i", "e", "n", "t", "e-grave", "l", "e", " ", "d", "e", " ">>

\* '.\n* Ton spécifique: '
PROMPT_TONE ==
    <<".", "\n", "*", " ", "T", "o", "n", " ", "s", "p", "e-acute", "c", "i", "f", "i", "q",
    "u", "e", ":", " ">>

\* '\n* Niveau de formalité: '
PROMPT_FORMALITY ==
    <<"\n", "*", " ", "N", "i", "v", "e", "a", "u", " ", "d", "e", " ", "f", "o", "r", "m",
    "a", "l", "i", "t", "e-acute", ":", " ">>

\* '\n* Style: '
PROMPT_PHRASING ==
    <<"\n", "*", " ", "S", "t", "y", "l", "e", ":", " ">>

\* '\n5. FERMETURE: terminez avec: "'
PROMPT_CLOSING_FLOW ==
    <<"\n", "5", ".", " ", "F", "E", "R", "M", "E", "T", "U", "R", "E", ":", " ", "t", "e",
    "r", "m", "i", "n", "e", "z", " ", "a", "v", "e", "c", ":", " ", "\"">>

\* '"\nFermez la conversation immédiatement avec "'
PROMPT_CLOSING_SIGNALS ==
    <<"\"", "\n", "F", "e", "r", "m", "e", "z", " ", "l", "a", " ", "c", "o", "n", "v", "e",
    "r", "s", "a", "t", "i", "o", "n", " ", "i", "m", "m", "e-acute", "d", "i", "a", "t",
    "e", "m", "e", "n", "t", " ", "a", "v", "e", "c", " ", "\"">>

\* '" quand:\nRestez bref. Fermez quand c\'est approprié.'
PROMPT_TAIL ==
    <<"\"", " ", "q", "u", "a", "n", "d", ":", "\n", "R", "e", "s", "t", "e", "z", " ", "b",
    "r", "e", "f", ".", " ", "F", "e", "r", "m", "e", "z", " ", "q", "u", "a", "n", "d", " ",
    "c", "'", "e", "s", "t", " ", "a", "p", "p", "r", "o", "p", "r", "i", "e-acute", ".">>

\* '\n\n[HISTORIQUE DE CONVERSATION]\n'
PROMPT_HISTORY_HEADER ==
    <<"\n", "\n", "[", "H", "I", "S", "T", "O", "R", "I", "Q", "U", "E", " ", "D", "E", " ",
    "C", "O", "N", "V", "E", "R", "S", "A", "T", "I", "O", "N", "]", "\n">>

\* '\n\n[INSTRUCTION] Répondez au client de manière naturelle et professionnelle en français:'
PROMPT_INSTRUCTION ==
    <<"\n", "\n", "[", "I", "N", "S", "T", "R", "U", "C", "T", "I", "O", "N", "]", " ", "R",
    "e-acute", "p", "o", "n", "d", "e", "z", " ", "a", "u", " ", "c", "l", "i", "e", "n",
    "t", " ", "d", "e", " ", "m", "a", "n", "i", "e-grave", "r", "e", " ", "n", "a", "t",
    "u", "r", "e", "l", "l", "e", " ", "e", "t", " ", "p", "r", "o", "f", "e", "s", "s", "i",
    "o", "n", "n", "e", "l", "l", "e", " ", "e", "n", " ", "f", "r", "a", "n", "c-ced", "a",
    "i", "s", ":">>

\* 'Dell'
NAME_DELL ==
    <<"D", "e", "l", "l">>

\* 'Amazon'
NAME_AMAZON ==
    <<"A", "m", "a", "z", "o", "n">>

\* 'Microsoft'
NAME_MICROSOFT ==
    <<"M", "i", "c", "r", "o", "s", "o", "f", "t">>

\* 'Acme'
NAME_ACME ==
    <<"A", "c", "m", "e">>

\* 'Orange'
NAME_ORANGE ==
    <<"O", "r", "a", "n", "g", "e">>

\* 'friendly'
TONE_FRIENDLY ==
    <<"f", "r", "i", "e", "n", "d", "l", "y">>

\* 'Merci, bonne journée.'
CLOSING_LINE_A ==
    <<"M", "e", "r", "c", "i", ",", " ", "b", "o", "n", "n", "e", " ", "j", "o", "u", "r",
    "n", "e-acute", "e", ".">>

\* 'Merci de votre confiance.'
CLOSING_LINE_B ==
    <<"M", "e", "r", "c", "i", " ", "d", "e", " ", "v", "o", "t", "r", "e", " ", "c", "o",
    "n", "f", "i", "a", "n", "c", "e", ".">>

\* 'Bonjour.'
U_BONJOUR ==
    <<"B", "o", "n", "j", "o", "u", "r", ".">>

\* 'Vous êtes un robot?'
U_ROBOT ==
    <<"V", "o", "u", "s", " ", "e-circ", "t", "e", "s", " ", "u", "n", " ", "r", "o", "b",
    "o", "t", "?">>

\* 'Au revoir.'
U_AU_REVOIR ==
    <<"A", "u", " ", "r", "e", "v", "o", "i", "r", ".">>

\* 'AU REVOIR'
U_AU_REVOIR_UPPER ==
    <<"A", "U", " ", "R", "E", "V", "O", "I", "R">>

\* 'À bientôt, chatbot'
U_BYE_CHATBOT ==
    <<"A-grave", " ", "b", "i", "e", "n", "t", "o-circ", "t", ",", " ", "c", "h", "a", "t",
    "b", "o", "t">>

\* 'au revoir'
W_AU_REVOIR ==
    <<"a", "u", " ", "r", "e", "v", "o", "i", "r">>

\* 'à bientôt'
W_A_BIENTOT ==
    <<"a-grave", " ", "b", "i", "e", "n", "t", "o-circ", "t">>

\* 'Au revoir'
W_AU_REVOIR_CAP ==
    <<"A", "u", " ", "r", "e", "v", "o", "i", "r">>

\* "D'accord."
T_DACCORD ==
    <<"D", "'", "a", "c", "c", "o", "r", "d", ".">>

\* 'Merci, au revoir.'
T_MERCI ==
    <<"M", "e", "r", "c", "i", ",", " ", "a", "u", " ", "r", "e", "v", "o", "i", "r", ".">>

\* The texts of the closing-word cases of run_preflight_test (agent.py:286-292).
\* 'Au revoir'
P_AU_REVOIR ==
    <<"A", "u", " ", "r", "e", "v", "o", "i", "r">>

\* 'À bientôt'
P_A_BIENTOT ==
    <<"A-grave", " ", "b", "i", "e", "n", "t", "o-circ", "t">>

\* 'Je dois y aller, au revoir'
P_JE_DOIS_Y_ALLER ==
    <<"J", "e", " ", "d", "o", "i", "s", " ", "y", " ", "a", "l", "l", "e", "r", ",", " ",
    "a", "u", " ", "r", "e", "v", "o", "i", "r">>

\* 'Oui, je peux payer demain'
P_OUI_DEMAIN ==
    <<"O", "u", "i", ",", " ", "j", "e", " ", "p", "e", "u", "x", " ", "p", "a", "y", "e",
    "r", " ", "d", "e", "m", "a", "i", "n">>

\* 'Bonjour'
P_BONJOUR ==
    <<"B", "o", "n", "j", "o", "u", "r">>

\* the texts of the identity-challenge test cases
\* "Are you a robot?"
R_ARE_YOU_A_ROBOT ==
    <<"A", "r", "e", " ", "y", "o", "u", " ", "a", " ", "r", "o", "b", "o", "t", "?">>

\* "Vous etes un robot ?" (with the circumflex, and a space before the mark)
R_VOUS_ETES_UN_ROBOT ==
    <<"V", "o", "u", "s", " ", "e-circ", "t", "e", "s", " ", "u", "n", " ", "r", "o", "b",
    "o", "t", " ", "?">>

\* "Are you a bot?"
R_ARE_YOU_A_BOT ==
    <<"A", "r", "e", " ", "y", "o", "u", " ", "a", " ", "b", "o", "t", "?">>

\* "C'est une vraie personne?"
R_VRAIE_PERSONNE ==
    <<"C", "'", "e", "s", "t", " ", "u", "n", "e", " ", "v", "r", "a", "i", "e", " ", "p",
    "e", "r", "s", "o", "n", "n", "e", "?">>

\* "I can pay tomorrow."
R_I_CAN_PAY ==
    <<"I", " ", "c", "a", "n", " ", "p", "a", "y", " ", "t", "o", "m", "o", "r", "r", "o",
    "w", ".">>

\* "Bonjour"
R_BONJOUR ==
    <<"B", "o", "n", "j", "o", "u", "r">>

\* "Je veux payer"
R_JE_VEUX_PAYER ==
    <<"J", "e", " ", "v", "e", "u", "x", " ", "p", "a", "y", "e", "r">>

(***************************************************************************)
(* Python's string and list operations.                                    *)
(***************************************************************************)
UPPER_CHARS ==
    <<"A", "B", "C", "D", "E", "F", "G", "H", "I", "J", "K", "L", "M", "N", "O", "P", "Q",
      "R", "S", "T", "U", "V", "W", "X", "Y", "Z", "A-grave", "A-circ", "C-ced", "E-acute", "E-grave", "E-circ", "E-uml",
      "I-circ", "I-uml", "O-circ", "U-grave", "U-circ">>

LOWER_CHARS ==
    <<"a", "b", "c", "d", "e", "f", "g", "h", "i", "j", "k", "l", "m", "n", "o", "p", "q",
      "r", "s", "t", "u", "v", "w", "x", "y", "z", "a-grave", "a-circ", "c-ced", "e-acute", "e-grave", "e-circ", "e-uml",
      "i-circ", "i-uml", "o-circ", "u-grave", "u-circ">>

\* str.lower() on one character
lower_char(c) ==
    IF \E i \in DOMAIN UPPER_CHARS : UPPER_CHARS[i] = c
    THEN LOWER_CHARS[CHOOSE i \in DOMAIN UPPER_CHARS : UPPER_CHARS[i] = c]
    ELSE c

\* str.lower()
lower(text) == [i \in 1..Len(text) |-> lower_char(text[i])]

\* Python's `sub in text` on strings
Contains(sub, text) ==
    \E i \in 0..(Len(text) - Len(sub)) : \A j \in 1..Len(sub) : text[i + j] = sub[j]

\* sep.join(parts)
RECURSIVE Join(_, _)
Join(sep, parts) ==
    IF parts = <<>> THEN <<>>
    ELSE IF Len(parts) = 1 THEN parts[1]
    ELSE parts[1] \o sep \o Join(sep, Tail(parts))

\* Python's lst[-n:] for an integer n: the slice starts at index -n, which is
\* index 0 when n = 0, and is clamped to the list
SliceLast(lst, n) ==
    LET len   == Len(lst)
        start == IF n > 0 THEN (IF len - n > 0 THEN len - n ELSE 0)
                 ELSE (IF -n < len THEN -n ELSE len)
    IN  SubSeq(lst, start + 1, len)

\* dict.get(key, default)
Get(d, key, default) == IF key \in DOMAIN d THEN d[key] ELSE default

(***************************************************************************)
(* Configuration: the client store.  config.yaml is read at import         *)
(* (agent.py:35-44); the profiles below are a sample store that holds one  *)
(* profile per tone, one without a tone, one with an unknown tone, and two *)
(* that lack a field the prompt builder reads.                             *)
(***************************************************************************)
None == "None"

CLIENT_KEYS == <<"dell", "amazon_business", "microsoft", "no_tone", "odd_tone",
                 "no_name", "no_closing">>

CLIENTS ==
    [k \in {CLIENT_KEYS[i] : i \in DOMAIN CLIENT_KEYS} |->
        CASE k = "dell" ->
                [client_name |-> NAME_DELL, tone |-> TONE_FORMAL,
                 closing_line |-> CLOSING_LINE_A]
          [] k = "amazon_business" ->
                [client_name |-> NAME_AMAZON, tone |-> TONE_PROFESSIONAL,
                 closing_line |-> CLOSING_LINE_B]
          [] k = "microsoft" ->
                [client_name |-> NAME_MICROSOFT, tone |-> TONE_COLLABORATIVE,
                 closing_line |-> CLOSING_LINE_A]
          [] k = "no_tone" ->
                [client_name |-> NAME_ACME, closing_line |-> CLOSING_LINE_B]
          [] k = "odd_tone" ->
                [client_name |-> NAME_ORANGE, tone |-> TONE_FRIENDLY,
                 closing_line |-> CLOSING_LINE_A]
          [] k = "no_name" ->
                [tone |-> TONE_FORMAL, closing_line |-> CLOSING_LINE_A]
          [] k = "no_closing" ->
                [client_name |-> NAME_DELL, tone |-> TONE_FORMAL]]

\* client_key arguments tried: every key of the store, one that is not in
\* it, and None (the default argument)
ClientKeyInputs == DOMAIN CLIENTS \cup {"unknown", None}

\* values of the DEFAULT_CLIENT environment variable tried (None: unset)
DefaultClientEnv == {None, "microsoft", "unknown"}

\* agent.max_history of the configuration: 10 when absent
MAX_HISTORY_DEFAULT == 10

MaxHistoryValues == 0..MaxHistoryBound \cup {MAX_HISTORY_DEFAULT}

\* agent.closing_words of the configuration the sessions run under
ClosingWordsValues == { <<W_AU_REVOIR, W_A_BIENTOT>> }

\* user utterances tried: a plain one, an identity challenge, a closing
\* signal, and one that is both a closing signal and an identity challenge
Utterances == {U_BONJOUR, U_ROBOT, U_AU_REVOIR, U_BYE_CHATBOT}

\* texts the callers hand to the two predicates between turns
ProbeTexts == {U_AU_REVOIR, U_ROBOT}

\* texts the backend may generate
BackendTexts == {T_DACCORD, T_MERCI}

\* messages of the errors the backend may raise
BackendErrors == {"quota exceeded"}

\* "quota exceeded"
E_QUOTA_EXCEEDED ==
    <<"q", "u", "o", "t", "a", " ", "e", "x", "c", "e", "e", "d", "e", "d">>

\* str(e) for an error of the backend, as line 218 prints it
ErrorText(e) == IF e = "quota exceeded" THEN E_QUOTA_EXCEEDED ELSE <<>>

(***************************************************************************)
(* The prompt builder.                                                     *)
(***************************************************************************)
Returned(v) == [raised |-> FALSE, value |-> v]

Raised(e) == [raised |-> TRUE, value |-> e]

\* Mutant of build_system_prompt: the closing line is read with a default,
\* like the tone, so a profile without it is accepted.
build_system_prompt_Lenient(cfg) ==
    IF "client_name" \notin DOMAIN cfg THEN Raised("KeyError: 'client_name'")
    ELSE Returned(
        PROMPT_ROLE \o cfg["client_name"]
        \o PROMPT_TONE \o Get(cfg, "tone", TONE_PROFESSIONAL)
        \o PROMPT_FORMALITY \o Get(cfg, "formality_level", FORMALITY_DEFAULT)
        \o PROMPT_PHRASING \o Get(cfg, "phrasing", PHRASING_DEFAULT)
        \o PROMPT_CLOSING_FLOW \o Get(cfg, "closing_line", <<>>)
        \o PROMPT_CLOSING_SIGNALS \o Get(cfg, "closing_line", <<>>)
        \o PROMPT_TAIL)

\* The f-string of build_system_prompt.  The static text between the
\* interpolated fields is abridged to the line each field stands on; the
\* six interpolations are all there, in the order of the source.
\* client_config['client_name'] and client_config['closing_line'] raise
\* KeyError when the key is absent; the other three fields have defaults.
build_system_prompt(cfg) ==
    IF "client_name" \notin DOMAIN cfg THEN Raised("KeyError: 'client_name'")
    ELSE IF "closing_line" \notin DOMAIN cfg THEN Raised("KeyError: 'closing_line'")
    ELSE Returned(
        PROMPT_ROLE \o cfg["client_name"]
        \o PROMPT_TONE \o Get(cfg, "tone", TONE_PROFESSIONAL)
        \o PROMPT_FORMALITY \o Get(cfg, "formality_level", FORMALITY_DEFAULT)
        \o PROMPT_PHRASING \o Get(cfg, "phrasing", PHRASING_DEFAULT)
        \o PROMPT_CLOSING_FLOW \o cfg["closing_line"]
        \o PROMPT_CLOSING_SIGNALS \o cfg["closing_line"]
        \o PROMPT_TAIL)

(***************************************************************************)
(* Methods of FrenchDebtCollectionAgent that do not change the session.    *)
(***************************************************************************)
\* Mutant of get_greeting: an unknown tone falls back to the formal template.
get_greeting_FormalFallback(cfg) ==
    LET name == cfg["client_name"]
        tone == Get(cfg, "tone", TONE_PROFESSIONAL)
    IN  IF tone = TONE_PROFESSIONAL
        THEN GREETING_PROFESSIONAL_PRE \o name \o GREETING_PROFESSIONAL_POST
        ELSE IF tone = TONE_COLLABORATIVE
        THEN GREETING_COLLABORATIVE_PRE \o name \o GREETING_COLLABORATIVE_POST
        ELSE GREETING_FORMAL_PRE \o name \o GREETING_FORMAL_POST

\* greeting_prompts.get(tone, greeting_prompts['professional'])
get_greeting(cfg) ==
    LET name == cfg["client_name"]
        tone == Get(cfg, "tone", TONE_PROFESSIONAL)
    IN  IF tone = TONE_FORMAL
        THEN GREETING_FORMAL_PRE \o name \o GREETING_FORMAL_POST
        ELSE IF tone = TONE_COLLABORATIVE
        THEN GREETING_COLLABORATIVE_PRE \o name \o GREETING_COLLABORATIVE_POST
        ELSE GREETING_PROFESSIONAL_PRE \o name \o GREETING_PROFESSIONAL_POST

\* any(word in text.lower() for word in CLOSING_WORDS)
is_closing_message(text) ==
    LET text_lower == lower(text)
    IN  \E i \in DOMAIN CLOSING_WORDS : Contains(CLOSING_WORDS[i], text_lower)

robot_keywords ==
    <<KW_01, KW_02, KW_03, KW_04, KW_05, KW_06, KW_07, KW_08, KW_09, KW_10, KW_11,
      KW_12, KW_13>>

\* a variant that tests the text as written
is_robot_question_AsWritten(text) ==
    \E i \in DOMAIN robot_keywords : Contains(robot_keywords[i], text)

\* any(keyword in text.lower() for keyword in robot_keywords)
is_robot_question(text) ==
    LET text_lower == lower(text)
    IN  \E i \in DOMAIN robot_keywords : Contains(robot_keywords[i], text_lower)

\* robot_responses.get(tone, robot_responses['professional'])
get_robot_response(cfg) ==
    LET name == cfg["client_name"]
        tone == Get(cfg, "tone", TONE_PROFESSIONAL)
    IN  IF tone = TONE_FORMAL
        THEN ROBOT_FORMAL_PRE \o name \o ROBOT_FORMAL_POST
        ELSE IF tone = TONE_COLLABORATIVE
        THEN ROBOT_COLLABORATIVE_PRE \o name \o ROBOT_COLLABORATIVE_POST
        ELSE ROBOT_PROFESSIONAL_PRE \o name \o ROBOT_PROFESSIONAL_POST

\* f"Client: {user_message}"
ClientTurn(text) == PREFIX_CLIENT \o text

\* f"Agent: {text}"
AgentTurn(text) == PREFIX_AGENT \o text

\* Mutant of AppendTurn: the history itself is cut to the recent window.
AppendTurn_Trimmed(history, turn) ==
    LET all == Append(history, turn)
    IN  IF Len(all) > 2 THEN SubSeq(all, Len(all) - 1, Len(all)) ELSE all

\* self.conversation_history.append(turn)
AppendTurn(history, turn) == Append(history, turn)

\* "\n".join(self.conversation_history[-MAX_HISTORY:])
BuildContext(history, max_history) == Join(NEWLINE, SliceLast(history, max_history))

\* the f-string full_prompt of generate_response
BuildFullPrompt(prompt, ctx) ==
    prompt \o PROMPT_HISTORY_HEADER \o ctx \o PROMPT_INSTRUCTION

(***************************************************************************)
(* The callers' state while no harness run and no web interface is being   *)
(* looked at: the specifications of the session alone start here and       *)
(* never leave it.                                                         *)
(***************************************************************************)
\* the people who use the web interface at the same time
Callers == {"A", "B"}

HarnessIdle ==
    /\ hpc = "off"
    /\ GEMINI_API_KEY = "key"
    /\ store_keys = CLIENT_KEYS
    /\ args = [client |-> None, iterations |-> 1]
    /\ clients = <<>>
    /\ loop = [scenario |-> 0, client |-> 0, iteration |-> 0]
    /\ current_test = 0
    /\ result = None
    /\ all_results = <<>>
    /\ analysis = <<>>
    /\ exit_status = None

\* `current_agent = None`: a VoiceAgent is named by its place in `agents`
NoAgent == 0

GradioIdle ==
    /\ agents = <<>>
    /\ current_agent = NoAgent
    /\ created_by = [c \in Callers |-> NoAgent]
    /\ in_flight = <<>>

LoopIdle ==
    /\ rpc = "off"
    /\ inputs = <<>>

(***************************************************************************)
(* The session as its callers (run_agent, run_single_test) drive it:       *)
(* construct, start() once, then generate_response turn after turn; the    *)
(* two predicates may be called at any time in between.                    *)
(***************************************************************************)
NoCall == [op |-> "none", arg |-> <<>>, via |-> "none", raised |-> FALSE, value |-> <<>>]

Init ==
    /\ MAX_HISTORY \in MaxHistoryValues
    /\ CLOSING_WORDS \in ClosingWordsValues
    /\ pc = "new"
    /\ client_config = None
    /\ system_prompt = <<>>
    /\ conversation_history = <<>>
    /\ started = FALSE
    /\ user_message = <<>>
    /\ context = <<>>
    /\ full_prompt = <<>>
    /\ ret = NoCall
    /\ backend_calls = 0
    /\ turns = 0
    /\ at_entry = [history |-> <<>>, backend_calls |-> 0]
    /\ user_input = <<>>
    /\ HarnessIdle
    /\ GradioIdle
    /\ LoopIdle

\* FrenchDebtCollectionAgent.__init__(client_key)
Construct(client_key, env) ==
    /\ pc = "new"
    /\ LET key == IF client_key # None THEN client_key
                  ELSE IF env # None THEN env ELSE CLIENT_KEYS[1]
       IN  IF key \notin DOMAIN CLIENTS
           THEN /\ pc' = "init_failed"
                /\ ret' = [op |-> "init", arg |-> key, via |-> "none",
                           raised |-> TRUE, value |-> "ValueError"]
                /\ UNCHANGED <<client_config, system_prompt>>
           ELSE LET built == build_system_prompt(CLIENTS[key])
                IN  IF built.raised
                    THEN /\ pc' = "init_failed"
                         /\ ret' = [op |-> "init", arg |-> key, via |-> "none",
                                    raised |-> TRUE, value |-> built.value]
                         /\ UNCHANGED <<client_config, system_prompt>>
                    ELSE /\ pc' = "idle"
                         /\ client_config' = CLIENTS[key]
                         /\ system_prompt' = built.value
                         /\ ret' = [op |-> "init", arg |-> key, via |-> "none",
                                    raised |-> FALSE, value |-> <<>>]
    /\ conversation_history' = <<>>
    /\ UNCHANGED <<callerVars, MAX_HISTORY, CLOSING_WORDS, user_input, started, user_message, context,
                   full_prompt, backend_calls, turns, at_entry>>

\* FrenchDebtCollectionAgent.start()
Start ==
    /\ pc = "idle"
    /\ ~started
    /\ LET greeting == get_greeting(client_config)
       IN  /\ conversation_history' = AppendTurn(conversation_history, AgentTurn(greeting))
           /\ ret' = [op |-> "start", arg |-> <<>>, via |-> "greeting",
                      raised |-> FALSE, value |-> greeting]
    /\ started' = TRUE
    /\ UNCHANGED <<callerVars, MAX_HISTORY, CLOSING_WORDS, user_input, pc, client_config, system_prompt,
                   user_message, context, full_prompt, backend_calls, turns, at_entry>>

\* Mutant of UsesPreset: the preset branch is never taken.
UsesPreset_Never(msg) == FALSE

\* `if self.is_robot_question(user_message):` of generate_response
UsesPreset(msg) == is_robot_question(msg)

\* Mutant of GenerateResponse: the session closes itself, it takes no turn
\* after a turn whose utterance was a closing signal.
GenerateResponse_SelfClosing(msg) ==
    /\ pc = "idle"
    /\ started
    /\ turns < MaxTurns
    /\ ~is_closing_message(user_message)
    /\ turns' = turns + 1
    /\ user_message' = msg
    /\ at_entry' = [history |-> conversation_history, backend_calls |-> backend_calls]
    /\ LET history1 == Append(conversation_history, PREFIX_CLIENT \o msg)
       IN  IF is_robot_question(msg)
           THEN LET robot_response == get_robot_response(client_config)
                IN  /\ conversation_history' =
                           Append(history1, PREFIX_AGENT \o robot_response)
                    /\ ret' = [op |-> "generate_response", arg |-> msg, via |-> "preset",
                               raised |-> FALSE, value |-> robot_response]
                    /\ UNCHANGED <<pc, context, full_prompt, backend_calls>>
           ELSE /\ conversation_history' = history1
                /\ context' = BuildContext(history1, MAX_HISTORY)
                /\ full_prompt' = BuildFullPrompt(system_prompt, context')
                /\ backend_calls' = backend_calls + 1
                /\ pc' = "calling"
                /\ ret' = [op |-> "generate_response", arg |-> msg, via |-> "pending",
                           raised |-> FALSE, value |-> <<>>]
    /\ UNCHANGED <<callerVars, MAX_HISTORY, CLOSING_WORDS, user_input, client_config, system_prompt, started>>

\* FrenchDebtCollectionAgent.generate_response(msg), up to the preset
\* response or up to the call of the backend.  The method tests nothing
\* before it appends the user's turn: the guard is the caller's sequencing.
GenerateResponse(msg) ==
    /\ pc = "idle"
    /\ started
    /\ turns < MaxTurns
    /\ turns' = turns + 1
    /\ user_message' = msg
    /\ at_entry' = [history |-> conversation_history, backend_calls |-> backend_calls]
    /\ LET history1 == AppendTurn(conversation_history, ClientTurn(msg))
       IN  IF UsesPreset(msg)
           THEN LET robot_response == get_robot_response(client_config)
                IN  /\ conversation_history' = AppendTurn(history1, AgentTurn(robot_response))
                    /\ ret' = [op |-> "generate_response", arg |-> msg, via |-> "preset",
                               raised |-> FALSE, value |-> robot_response]
                    /\ UNCHANGED <<pc, context, full_prompt, backend_calls>>
           ELSE /\ conversation_history' = history1
                /\ context' = BuildContext(history1, MAX_HISTORY)
                /\ full_prompt' = BuildFullPrompt(system_prompt, context')
                /\ backend_calls' = backend_calls + 1
                /\ pc' = "calling"
                /\ ret' = [op |-> "generate_response", arg |-> msg, via |-> "pending",
                           raised |-> FALSE, value |-> <<>>]
    /\ UNCHANGED <<callerVars, MAX_HISTORY, CLOSING_WORDS, user_input, client_config, system_prompt, started>>

\* Mutant of BackendReturns: the generated text is returned but not kept.
BackendReturns_NotKept(text) ==
    /\ pc = "calling"
    /\ ret' = [op |-> "generate_response", arg |-> user_message, via |-> "backend",
               raised |-> FALSE, value |-> text]
    /\ pc' = "idle"
    /\ UNCHANGED <<callerVars, MAX_HISTORY, CLOSING_WORDS, user_input, client_config, system_prompt, started,
                   conversation_history, user_message, context, full_prompt, backend_calls,
                   turns, at_entry>>

\* self.model.generate_content(full_prompt) returns: lines 205-213
BackendReturns(text) ==
    /\ pc = "calling"
    /\ conversation_history' = AppendTurn(conversation_history, AgentTurn(text))
    /\ ret' = [op |-> "generate_response", arg |-> user_message, via |-> "backend",
               raised |-> FALSE, value |-> text]
    /\ pc' = "idle"
    /\ UNCHANGED <<callerVars, MAX_HISTORY, CLOSING_WORDS, user_input, client_config, system_prompt, started,
                   user_message, context, full_prompt, backend_calls, turns, at_entry>>

\* Mutant of BackendRaises: no handler, the error leaves generate_response.
BackendRaises_Propagate(e) ==
    /\ pc = "calling"
    /\ ret' = [op |-> "generate_response", arg |-> user_message, via |-> "except",
               raised |-> TRUE, value |-> e]
    /\ pc' = "idle"
    /\ UNCHANGED <<callerVars, MAX_HISTORY, CLOSING_WORDS, user_input, client_config, system_prompt,
                   conversation_history, started, user_message, context, full_prompt,
                   backend_calls, turns, at_entry>>

\* Mutant of BackendRaises: the handler calls the backend once more before
\* it gives up.
BackendRaises_Retry(e) ==
    /\ pc = "calling"
    /\ IF backend_calls = at_entry.backend_calls + 1
       THEN /\ backend_calls' = backend_calls + 1
            /\ UNCHANGED <<pc, ret, conversation_history>>
       ELSE /\ conversation_history' =
                   Append(conversation_history, PREFIX_AGENT \o error_msg)
            /\ ret' = [op |-> "generate_response", arg |-> user_message,
                       via |-> "except", raised |-> FALSE, value |-> error_msg]
            /\ pc' = "idle"
            /\ UNCHANGED backend_calls
    /\ UNCHANGED <<callerVars, MAX_HISTORY, CLOSING_WORDS, user_input, client_config, system_prompt, started,
                   user_message, context, full_prompt, turns, at_entry>>

\* Mutant of BackendRaises: the handler answers with the message of the error.
BackendRaises_ShowsError(e) ==
    /\ pc = "calling"
    /\ conversation_history' = Append(conversation_history, PREFIX_AGENT \o ErrorText(e))
    /\ ret' = [op |-> "generate_response", arg |-> user_message, via |-> "except",
               raised |-> FALSE, value |-> ErrorText(e)]
    /\ pc' = "idle"
    /\ UNCHANGED <<callerVars, MAX_HISTORY, CLOSING_WORDS, user_input, client_config, system_prompt, started,
                   user_message, context, full_prompt, backend_calls, turns, at_entry>>

\* self.model.generate_content(full_prompt) raises an Exception: lines 215-219
BackendRaises(e) ==
    /\ pc = "calling"
    /\ conversation_history' = AppendTurn(conversation_history, AgentTurn(error_msg))
    /\ ret' = [op |-> "generate_response", arg |-> user_message, via |-> "except",
               raised |-> FALSE, value |-> error_msg]
    /\ pc' = "idle"
    /\ UNCHANGED <<callerVars, MAX_HISTORY, CLOSING_WORDS, user_input, client_config, system_prompt, started,
                   user_message, context, full_prompt, backend_calls, turns, at_entry>>

\* Mutant of Interrupt: a handler that catches the interruption too
\* (`except BaseException`) and answers it with the apology.
Interrupt_Caught ==
    /\ pc = "calling"
    /\ pc' = "interrupted"
    /\ conversation_history' = Append(conversation_history, PREFIX_AGENT \o error_msg)
    /\ ret' = [op |-> "generate_response", arg |-> user_message, via |-> "interrupt",
               raised |-> FALSE, value |-> error_msg]
    /\ UNCHANGED <<callerVars, MAX_HISTORY, CLOSING_WORDS, user_input, client_config, system_prompt, started,
                   user_message, context, full_prompt, backend_calls, turns, at_entry>>

\* The caller abandons the turn while the backend call is in flight
\* (KeyboardInterrupt, which `except Exception` does not catch; the entry
\* point catches it at agent.py:396 and ends the session).
Interrupt ==
    /\ pc = "calling"
    /\ pc' = "interrupted"
    /\ ret' = [op |-> "generate_response", arg |-> user_message, via |-> "interrupt",
               raised |-> TRUE, value |-> "KeyboardInterrupt"]
    /\ UNCHANGED <<callerVars, MAX_HISTORY, CLOSING_WORDS, user_input, client_config, system_prompt,
                   conversation_history, started, user_message, context, full_prompt,
                   backend_calls, turns, at_entry>>

\* FrenchDebtCollectionAgent.is_closing_message(text), called by the caller
IsClosingMessage(text) ==
    /\ pc = "idle"
    /\ ret' = [op |-> "is_closing_message", arg |-> text, via |-> "none",
               raised |-> FALSE, value |-> is_closing_message(text)]
    /\ UNCHANGED <<callerVars, MAX_HISTORY, CLOSING_WORDS, user_input, pc, client_config, system_prompt,
                   conversation_history, started, user_message, context, full_prompt,
                   backend_calls, turns, at_entry>>

\* FrenchDebtCollectionAgent.is_robot_question(text), called by the caller
IsRobotQuestion(text) ==
    /\ pc = "idle"
    /\ ret' = [op |-> "is_robot_question", arg |-> text, via |-> "none",
               raised |-> FALSE, value |-> is_robot_question(text)]
    /\ UNCHANGED <<callerVars, MAX_HISTORY, CLOSING_WORDS, user_input, pc, client_config, system_prompt,
                   conversation_history, started, user_message, context, full_prompt,
                   backend_calls, turns, at_entry>>

Next ==
    \/ \E k \in ClientKeyInputs, env \in DefaultClientEnv : Construct(k, env)
    \/ Start
    \/ \E msg \in Utterances : GenerateResponse(msg)
    \/ \E text \in BackendTexts : BackendReturns(text)
    \/ \E e \in BackendErrors : BackendRaises(e)
    \/ Interrupt
    \/ \E text \in ProbeTexts : IsClosingMessage(text)
    \/ \E text \in ProbeTexts : IsRobotQuestion(text)

Spec == Init /\ [][Next]_vars

(***************************************************************************)
(* The predicates on their own, as run_preflight_test calls them           *)
(* (agent.py:285-294): a session constructed for the default client, no    *)
(* start(), one predicate call on one text.  The texts are the cases of    *)
(* the pre-flight test and every text over a four-letter alphabet up to    *)
(* MaxTextLen; the configured closing words are the lists above and every  *)
(* one-phrase list over the same alphabet.                                 *)
(***************************************************************************)
ClassifyAlphabet == {"a", "A", "b", "B"}

TextsUpTo(n) == UNION { [1..k -> ClassifyAlphabet] : k \in 0..n }

ClassifyTexts ==
    TextsUpTo(MaxTextLen)
    \cup {P_AU_REVOIR, P_A_BIENTOT, P_JE_DOIS_Y_ALLER, P_OUI_DEMAIN, P_BONJOUR,
          U_AU_REVOIR_UPPER}

ClassifyWordLists ==
    { <<>>, <<W_AU_REVOIR, W_A_BIENTOT>>, <<W_AU_REVOIR_CAP>> }
    \cup { <<p>> : p \in TextsUpTo(MaxPhraseLen) \ {<<>>} }

InitClassify ==
    /\ MAX_HISTORY = MAX_HISTORY_DEFAULT
    /\ CLOSING_WORDS \in ClassifyWordLists
    /\ pc = "idle"
    /\ client_config = CLIENTS[CLIENT_KEYS[1]]
    /\ system_prompt = build_system_prompt(CLIENTS[CLIENT_KEYS[1]]).value
    /\ conversation_history = <<>>
    /\ started = FALSE
    /\ user_message = <<>>
    /\ context = <<>>
    /\ full_prompt = <<>>
    /\ ret = NoCall
    /\ backend_calls = 0
    /\ turns = 0
    /\ at_entry = [history |-> <<>>, backend_calls |-> 0]
    /\ user_input \in ClassifyTexts
    /\ HarnessIdle
    /\ GradioIdle
    /\ LoopIdle

\* agent.is_closing_message(text) of a test case
ClassifyClosing ==
    /\ ret.op = "none"
    /\ IsClosingMessage(user_input)

\* agent.is_robot_question(text) of a test case
ClassifyRobot ==
    /\ ret.op = "none"
    /\ IsRobotQuestion(user_input)

NextClassify == ClassifyClosing \/ ClassifyRobot

SpecClassify == InitClassify /\ [][NextClassify]_vars

\* C10 (as claimed): is_closing_message is case-insensitive: it is true
\* exactly when the utterance contains a configured phrase in some mix of
\* upper and lower case, whatever the case of the phrase in the
\* configuration.
C10_ClosingSignalCaseInsensitive ==
    ret.op = "is_closing_message" =>
        ret.value = (\E i \in DOMAIN CLOSING_WORDS :
                        Contains(lower(CLOSING_WORDS[i]), lower(ret.arg)))

(***************************************************************************)
(* Properties of the session.                                              *)
(***************************************************************************)
IsPrefix(s, t) == Len(s) <= Len(t) /\ SubSeq(t, 1, Len(s)) = s

Min(a, b) == IF a < b THEN a ELSE b

\* the last k elements of h, for 0 <= k <= Len(h)
LastTurns(h, k) == SubSeq(h, Len(h) - k + 1, Len(h))

\* C1: generate_response raises nothing, whatever the utterance and whether
\* the backend returned or raised; when the backend raised, the turn ends
\* with the fixed apology appended as the agent's turn and returned.
C1_RespondNeverRaises ==
    (ret.op = "generate_response" /\ ret.via \in {"preset", "backend", "except"}) =>
        /\ ~ret.raised
        /\ pc = "idle"
        /\ ret.via = "except" =>
              /\ ret.value = error_msg
              /\ conversation_history =
                     at_entry.history \o <<ClientTurn(user_message), AgentTurn(error_msg)>>

\* the backend raised in both turns of a session
C1_Witness ==
    /\ ret.op = "generate_response" /\ ret.via = "except"
    /\ Len(conversation_history) = 5
    /\ conversation_history[3] = AgentTurn(error_msg)
    /\ conversation_history[5] = AgentTurn(error_msg)

\* C2: when the utterance is an identity challenge, generate_response appends
\* the user's turn and the preset denial, returns the denial and calls the
\* backend not at all; "Vous etes un robot?", the second utterance of the
\* harness scenario "Robot Question Detection", is an identity challenge.
C2_IdentityChallengeShortCircuits ==
    /\ is_robot_question(U_ROBOT)
    /\ (ret.op = "generate_response" /\ is_robot_question(user_message)) =>
          /\ pc = "idle"
          /\ ret.via = "preset"
          /\ ~ret.raised
          /\ ret.value = get_robot_response(client_config)
          /\ conversation_history =
                 at_entry.history \o <<ClientTurn(user_message), AgentTurn(ret.value)>>
          /\ backend_calls = at_entry.backend_calls

\* the scenario's first two turns: "Bonjour." answered by the backend, then
\* the identity challenge answered by the denial
C2_Witness ==
    /\ ret.op = "generate_response" /\ ret.via = "preset"
    /\ Len(conversation_history) = 5
    /\ conversation_history[2] = ClientTurn(U_BONJOUR)
    /\ conversation_history[4] = ClientTurn(U_ROBOT)
    /\ conversation_history[5] = AgentTurn(get_robot_response(client_config))
    /\ backend_calls = 1

\* C3 (as claimed): the context sent to the backend is exactly the last
\* min(N, length) turns of the history, N the configured max_history, in
\* order, so never more than N turns.
C3_ContextIsRecentWindow ==
    pc = "calling" =>
        context = Join(NEWLINE, LastTurns(conversation_history,
                                          Min(MAX_HISTORY, Len(conversation_history))))

\* C4: the history is append-only: every step leaves the history it found
\* as a prefix of the history it leaves.
C4_HistoryAppendOnly ==
    [][IsPrefix(conversation_history, conversation_history')]_vars

\* two full turns, then a predicate call
C4_Witness ==
    /\ Len(conversation_history) = 5
    /\ ret.op = "is_closing_message"

\* the greeting template the claim names for a profile
ExpectedGreeting(cfg) ==
    LET name == cfg["client_name"]
    IN  CASE "tone" \in DOMAIN cfg /\ cfg["tone"] = TONE_FORMAL ->
                GREETING_FORMAL_PRE \o name \o GREETING_FORMAL_POST
          [] "tone" \in DOMAIN cfg /\ cfg["tone"] = TONE_COLLABORATIVE ->
                GREETING_COLLABORATIVE_PRE \o name \o GREETING_COLLABORATIVE_POST
          [] OTHER ->
                GREETING_PROFESSIONAL_PRE \o name \o GREETING_PROFESSIONAL_POST

\* C5: start() returns the greeting of the profile's tone (the professional
\* one when the tone is missing or unknown), appends exactly that one agent
\* turn and calls no backend; the greeting is the first turn of the history.
C5_StartGreets ==
    /\ ~started => conversation_history = <<>>
    /\ started =>
          /\ Len(conversation_history) >= 1
          /\ conversation_history[1] = AgentTurn(ExpectedGreeting(client_config))
    /\ ret.op = "start" =>
          /\ ~ret.raised
          /\ ret.value = ExpectedGreeting(client_config)
          /\ conversation_history = <<AgentTurn(ret.value)>>
          /\ backend_calls = 0

\* start() has returned for a profile whose tone is none of the three
C5_Witness ==
    /\ ret.op = "start"
    /\ "tone" \in DOMAIN client_config
    /\ client_config["tone"] = TONE_FRIENDLY

\* C6: one generate_response makes at most one backend call, exactly one
\* when the utterance is no identity challenge; after a call that raised,
\* the turn has ended with the apology and no second call was made.
C6_NoRetry ==
    ret.op = "generate_response" =>
        /\ backend_calls - at_entry.backend_calls =
              IF is_robot_question(user_message) THEN 0 ELSE 1
        /\ ret.via = "except" => (pc = "idle" /\ ret.value = error_msg)

\* a turn whose one backend call raised
C6_Witness ==
    /\ ret.op = "generate_response" /\ ret.via = "except"
    /\ pc = "idle"
    /\ backend_calls = at_entry.backend_calls + 1

\* C7 (as claimed): while the backend call is in flight, and after a turn
\* abandoned during the call, the history is what it was when
\* generate_response began.
C7_NothingAppendedInFlight ==
    pc \in {"calling", "interrupted"} => conversation_history = at_entry.history

\* C7 (amended): while the backend call is in flight, and after a turn
\* abandoned during the call, the history is the history generate_response
\* found plus the user's turn: no agent turn is appended before the call
\* resolves.
C7_OnlyUserTurnInFlight ==
    pc \in {"calling", "interrupted"} =>
        conversation_history = Append(at_entry.history, ClientTurn(user_message))

\* the second turn of a session was abandoned during its backend call
C7_Witness ==
    /\ pc = "interrupted"
    /\ turns = 2

\* C8: the session never closes itself: after any turns, a further
\* generate_response is accepted for every utterance, and an utterance that
\* is a closing signal and no identity challenge is appended and sent to the
\* backend like any other.
C8_NeverSelfCloses ==
    /\ (pc = "idle" /\ started /\ turns < MaxTurns) =>
          \A msg \in Utterances : ENABLED GenerateResponse(msg)
    /\ (ret.op = "generate_response" /\ is_closing_message(user_message)
          /\ ~is_robot_question(user_message)) =>
          /\ backend_calls = at_entry.backend_calls + 1
          /\ IsPrefix(Append(at_entry.history, ClientTurn(user_message)),
                      conversation_history)

\* a turn in progress after a closing-signal turn that ended in the apology
C8_Witness ==
    /\ pc = "calling"
    /\ turns = 2
    /\ is_closing_message(U_AU_REVOIR)
    /\ conversation_history[2] = ClientTurn(U_AU_REVOIR)
    /\ conversation_history[3] = AgentTurn(error_msg)

HasPromptFields(cfg) == "client_name" \in DOMAIN cfg /\ "closing_line" \in DOMAIN cfg

\* C9: building the prompt fails when the profile lacks client_name or
\* closing_line, and then no session exists; for a profile with both it
\* succeeds and the prompt contains both values.
C9_PromptNeedsNameAndClosingLine ==
    /\ (ret.op = "init" /\ ret.arg \in DOMAIN CLIENTS) =>
          IF HasPromptFields(CLIENTS[ret.arg])
          THEN /\ ~ret.raised
               /\ pc = "idle"
               /\ client_config = CLIENTS[ret.arg]
          ELSE /\ ret.raised
               /\ pc = "init_failed"
               /\ client_config = None
               /\ system_prompt = <<>>
    /\ pc \in {"idle", "calling", "interrupted"} =>
          /\ HasPromptFields(client_config)
          /\ Contains(client_config["client_name"], system_prompt)
          /\ Contains(client_config["closing_line"], system_prompt)

\* construction was tried with a profile that has no closing_line
C9_Witness ==
    /\ ret.op = "init"
    /\ ret.arg = "no_closing"
    /\ ret.raised

(***************************************************************************)
(* is_robot_question on its own, as run_preflight_test calls it            *)
(* (agent.py:304-324), on sessions with and without a history.  The texts  *)
(* are the cases of the pre-flight test, the two examples of the           *)
(* specification, and every text up to MaxTextLen over an alphabet that    *)
(* spells the shortest keyword, "ia?".                                     *)
(***************************************************************************)
RobotAlphabet == {"i", "a", "A", "?"}

RobotTexts ==
    UNION { [1..k -> RobotAlphabet] : k \in 0..MaxTextLen }
    \cup {R_ARE_YOU_A_ROBOT, R_VOUS_ETES_UN_ROBOT, R_ARE_YOU_A_BOT, R_VRAIE_PERSONNE,
          R_I_CAN_PAY, R_BONJOUR, R_JE_VEUX_PAYER}

\* the sessions the predicate is called on: fresh, after start(), and after
\* a turn that was an identity challenge
RobotSessions ==
    LET cfg      == CLIENTS[CLIENT_KEYS[1]]
        greeting == AgentTurn(get_greeting(cfg))
    IN  { [history |-> <<>>, started |-> FALSE, turns |-> 0, user_message |-> <<>>,
           at_entry |-> <<>>],
          [history |-> <<greeting>>, started |-> TRUE, turns |-> 0,
           user_message |-> <<>>, at_entry |-> <<>>],
          [history |-> <<greeting, ClientTurn(U_ROBOT),
                         AgentTurn(get_robot_response(cfg))>>,
           started |-> TRUE, turns |-> 1, user_message |-> U_ROBOT,
           at_entry |-> <<greeting>>] }

InitRobot ==
    /\ MAX_HISTORY = MAX_HISTORY_DEFAULT
    /\ CLOSING_WORDS \in ClosingWordsValues
    /\ pc = "idle"
    /\ client_config = CLIENTS[CLIENT_KEYS[1]]
    /\ system_prompt = build_system_prompt(CLIENTS[CLIENT_KEYS[1]]).value
    /\ \E s \in RobotSessions :
          /\ conversation_history = s.history
          /\ started = s.started
          /\ turns = s.turns
          /\ user_message = s.user_message
          /\ at_entry = [history |-> s.at_entry, backend_calls |-> 0]
    /\ context = <<>>
    /\ full_prompt = <<>>
    /\ ret = NoCall
    /\ backend_calls = 0
    /\ user_input \in RobotTexts
    /\ HarnessIdle
    /\ GradioIdle
    /\ LoopIdle

\* agent.is_robot_question(text) of a test case
RobotProbe ==
    /\ ret.op = "none"
    /\ IsRobotQuestion(user_input)

NextRobot == RobotProbe

SpecRobot == InitRobot /\ [][NextRobot]_vars

\* the lower-cased text contains a phrase of the fixed list
HasIdentityPhrase(text) ==
    \E kw \in {robot_keywords[i] : i \in DOMAIN robot_keywords} :
        \E at \in 1..Len(text) :
            /\ at + Len(kw) - 1 <= Len(text)
            /\ SubSeq(lower(text), at, at + Len(kw) - 1) = kw

\* C11: is_robot_question(text) is true exactly when the lower-cased text
\* contains a phrase of the fixed list; it is true for "Are you a robot?",
\* "Vous etes un robot ?", "Are you a bot?" and "C'est une vraie personne?"
\* and false for "I can pay tomorrow.", "Bonjour" and "Je veux payer"; the
\* result is the same on every history and the call leaves the history as
\* it was.
C11_RobotQuestionIsKeywordTest ==
    /\ [](ret.op = "is_robot_question" =>
            /\ ret.value = HasIdentityPhrase(ret.arg)
            /\ ret.arg \in {R_ARE_YOU_A_ROBOT, R_VOUS_ETES_UN_ROBOT, R_ARE_YOU_A_BOT,
                             R_VRAIE_PERSONNE} => ret.value
            /\ ret.arg \in {R_I_CAN_PAY, R_BONJOUR, R_JE_VEUX_PAYER} => ~ret.value)
    /\ [][conversation_history' = conversation_history]_vars

\* the pre-flight case with the capital letter and the circumflex was
\* answered on a session whose history holds three turns
C11_Witness ==
    /\ ret.op = "is_robot_question"
    /\ ret.arg = R_VOUS_ETES_UN_ROBOT
    /\ ret.value
    /\ Len(conversation_history) = 3

(***************************************************************************)
(* The test harness, src/test_harness.py.                                  *)
(*                                                                         *)
(* A latency is a whole number of time units.  The rates and the mean are  *)
(* Python floats, passed / total * 100 and sum / n; the model keeps them   *)
(* as exact fractions [num, den].  The two places where the code depends   *)
(* on the rounding agree with the exact value for every size the model     *)
(* can reach (and far beyond it): int(n * 0.95) is (95 * n) \div 100, and  *)
(* passed / total * 100 == 100 exactly when passed = total.                *)
(***************************************************************************)
\* iterations given on the command line: 0 .. MaxIterations
MaxIterations == 2
\* longest pooled sample of latencies handed to analyze_results on its own
MaxSampleLen == 21

\* "au revoir"
IND_AU_REVOIR ==
    <<"a", "u", " ", "r", "e", "v", "o", "i", "r">>

\* "a bientot" (with the grave and the circumflex)
IND_A_BIENTOT ==
    <<"a-grave", " ", "b", "i", "e", "n", "t", "o-circ", "t">>

\* "fin"
IND_FIN ==
    <<"f", "i", "n">>

\* "quitter"
IND_QUITTER ==
    <<"q", "u", "i", "t", "t", "e", "r">>

\* "merci"
IND_MERCI ==
    <<"m", "e", "r", "c", "i">>

\* "API Error: "
API_ERROR_PREFIX ==
    <<"A", "P", "I", " ", "E", "r", "r", "o", "r", ":", " ">>

\* "[greeting]"
GREETING_MARK ==
    <<"[", "g", "r", "e", "e", "t", "i", "n", "g", "]">>

\* str(KeyError('client_name'))
MSG_KEYERROR_CLIENT_NAME ==
    <<"'", "c", "l", "i", "e", "n", "t", "_", "n", "a", "m", "e", "'">>

\* str(KeyError('closing_line'))
MSG_KEYERROR_CLOSING_LINE ==
    <<"'", "c", "l", "o", "s", "i", "n", "g", "_", "l", "i", "n", "e", "'">>

\* closing_indicators (test_harness.py:213)
closing_indicators == <<IND_AU_REVOIR, IND_A_BIENTOT, IND_FIN, IND_QUITTER, IND_MERCI>>

\* TEST_SCENARIOS: two of the six scenarios, the first of the positive ones
\* and the identity-challenge one, each with two of its five utterances
TEST_SCENARIOS ==
    << [name |-> "Client Agrees to Pay", category |-> "Positive",
        conversation |-> <<U_BONJOUR, U_AU_REVOIR>>],
       [name |-> "Robot Question Detection", category |-> "Edge Case",
        conversation |-> <<U_BONJOUR, U_ROBOT>>] >>

\* the client stores a harness run is configured with: sub-stores of CLIENTS,
\* among them the empty one and one with a profile that lacks client_name
HarnessStores == { <<>>, <<"dell">>, <<"dell", "no_name">>, <<"no_closing", "dell">> }

\* --client: absent, a configured client, one that may or may not be in the
\* store, one that is in no store
ClientArgs == {None, "dell", "no_name", "unknown"}

IterationValues == 0..MaxIterations

\* the text the backend generates in a harness run, when it does not raise:
\* one that holds a closing indicator ("Merci"); the apology and the denial
\* are the agent texts that hold none
HarnessBackendTexts == {T_MERCI}

\* time.time() - start_time of one exchange of a harness run
HarnessLatencies == {2}

\* latencies of the samples handed to analyze_results on its own
LatencyValues == {1, 3}

\* str(e) of the exceptions the constructor raises for a profile of the store
ExceptionMessage(e) ==
    CASE e = "KeyError: 'client_name'"  -> MSG_KEYERROR_CLIENT_NAME
      [] e = "KeyError: 'closing_line'" -> MSG_KEYERROR_CLOSING_LINE

\* an attribute that holds None or a text: `x is None` is x.none
NoText == [none |-> TRUE, text |-> <<>>]

SomeText(t) == [none |-> FALSE, text |-> t]

\* TestResult.__init__; calls and errors are history fields of the model,
\* the backend calls of the test and those of them that raised
TestResult(scenario_name, client_key, iteration) ==
    [scenario_name |-> scenario_name, client_key |-> client_key,
     iteration |-> iteration, success |-> FALSE, error_message |-> NoText,
     response_times |-> <<>>, total_time |-> 0, turns |-> 0,
     properly_closed |-> FALSE, conversation |-> <<>>, failure_reason |-> NoText,
     calls |-> 0, errors |-> 0]

\* TestResult.add_exchange
add_exchange(r, user_msg, agent_response, response_time) ==
    [r EXCEPT !.response_times = Append(@, response_time),
              !.turns = @ + 1,
              !.conversation = Append(@, [user |-> user_msg, agent |-> agent_response,
                                          response_time |-> response_time])]

\* TestResult.set_error
set_error(r, error_text) ==
    [r EXCEPT !.success = FALSE,
              !.error_message = SomeText(error_text),
              !.failure_reason = SomeText(API_ERROR_PREFIX \o error_text)]

RECURSIVE SumOf(_)
\* sum(xs)
SumOf(xs) == IF xs = <<>> THEN 0 ELSE Head(xs) + SumOf(Tail(xs))

\* a variant of finalize that asks for a proper close as well
finalize_RequiresClose(r, properly_closed) ==
    [r EXCEPT !.properly_closed = properly_closed,
              !.total_time = IF r.response_times # <<>> THEN SumOf(r.response_times) ELSE 0,
              !.success = r.error_message.none /\ properly_closed]

\* a variant of finalize that counts an apology as an error
finalize_NoApology(r, properly_closed) ==
    [r EXCEPT !.properly_closed = properly_closed,
              !.total_time = IF r.response_times # <<>> THEN SumOf(r.response_times) ELSE 0,
              !.success = r.error_message.none /\ r.errors = 0]

\* TestResult.finalize
finalize(r, properly_closed) ==
    [r EXCEPT !.properly_closed = properly_closed,
              !.total_time = IF r.response_times # <<>> THEN SumOf(r.response_times) ELSE 0,
              !.success = r.error_message.none]

\* a variant of ProperlyClosed that looks at the user's last utterance
ProperlyClosed_LastUser(conversation) ==
    LET last_user_msg == lower(conversation[Len(conversation)].user)
    IN  \E i \in DOMAIN closing_indicators : Contains(closing_indicators[i], last_user_msg)

\* run_single_test, lines 212-214
ProperlyClosed(conversation) ==
    LET last_agent_msg == lower(conversation[Len(conversation)].agent)
    IN  \E i \in DOMAIN closing_indicators : Contains(closing_indicators[i], last_agent_msg)

(***************************************************************************)
(* analyze_results.                                                        *)
(***************************************************************************)
RECURSIVE Insert(_, _)
\* x put into the ascending list s
Insert(x, s) ==
    IF s = <<>> THEN <<x>>
    ELSE IF x <= Head(s) THEN <<x>> \o s
    ELSE <<Head(s)>> \o Insert(x, Tail(s))

RECURSIVE sorted(_)
\* sorted(xs)
sorted(xs) == IF xs = <<>> THEN <<>> ELSE Insert(Head(xs), sorted(Tail(xs)))

RECURSIVE Pooled(_)
\* all_response_times: the response_times of every result, in order
Pooled(results) ==
    IF results = <<>> THEN <<>> ELSE Head(results).response_times \o Pooled(Tail(results))

\* n / d * 100, and 0 when d is 0
Rate(n, d) == IF d > 0 THEN [num |-> n * 100, den |-> d] ELSE [num |-> 0, den |-> 1]

\* int(len(all_response_times) * 0.95)
P95Index(n) == (n * 95) \div 100

\* max(xs) of a non-empty list
MaxOf(xs) == CHOOSE x \in {xs[i] : i \in DOMAIN xs} : \A j \in DOMAIN xs : xs[j] <= x

\* a variant that reads the sorted sample at index int((n - 1) * 0.95)
P95_Below(times) == sorted(times)[P95Index(Len(times) - 1) + 1]

\* sorted(all_response_times)[int(len(all_response_times) * 0.95)]; index 0
\* of Python is index 1 here
P95(times) == sorted(times)[P95Index(Len(times)) + 1]

\* analyze_results(results); a dict is a function of its keys, the empty
\* dict the function of no key
analyze_results(results) ==
    IF results = <<>> THEN <<>>
    ELSE
    LET total_tests == Len(results)
        passed_tests == Cardinality({i \in DOMAIN results : results[i].success})
        all_response_times == Pooled(results)
        properly_closed == Cardinality({i \in DOMAIN results : results[i].properly_closed})
        failed == {i \in DOMAIN results : ~results[i].success}
        failed_names == {results[i].scenario_name : i \in failed}
        client_set == {results[i].client_key : i \in DOMAIN results}
    IN  [total_tests |-> total_tests,
         passed_tests |-> passed_tests,
         success_rate |-> Rate(passed_tests, total_tests),
         avg_response_time |->
             IF all_response_times # <<>>
             THEN [num |-> SumOf(all_response_times), den |-> Len(all_response_times)]
             ELSE [num |-> 0, den |-> 1],
         p95_response_time |->
             IF all_response_times # <<>> THEN P95(all_response_times) ELSE 0,
         max_response_time |->
             IF all_response_times # <<>> THEN MaxOf(all_response_times) ELSE 0,
         hand_off_rate |-> Rate(properly_closed, total_tests),
         failures_by_scenario |->
             [n \in failed_names |->
                 Cardinality({i \in failed : results[i].scenario_name = n})],
         failures_with_reasons |->
             [n \in failed_names |->
                 LET idx == {i \in failed : results[i].scenario_name = n}
                     Nth[k \in 1..Cardinality(idx)] ==
                         CHOOSE i \in idx : Cardinality({j \in idx : j < i}) = k - 1
                 IN  [k \in 1..Cardinality(idx) |-> results[Nth[k]].failure_reason]],
         per_client_stats |->
             [c \in client_set |->
                 LET client_results == {i \in DOMAIN results : results[i].client_key = c}
                     client_passed == Cardinality({i \in client_results : results[i].success})
                 IN  [total |-> Cardinality(client_results),
                      passed |-> client_passed,
                      success_rate |-> Rate(client_passed, Cardinality(client_results))]],
         all_results |-> results]

(***************************************************************************)
(* A harness run: the import of the module, main, run_all_tests and        *)
(* run_single_test.  Each test drives a session of its own through the     *)
(* operations of the session above; the steps of the harness between them  *)
(* are the bookkeeping of run_single_test.                                 *)
(***************************************************************************)
NoLoop == [scenario |-> 0, client |-> 0, iteration |-> 0]

\* a session that is not constructed yet
FreshSession ==
    /\ pc' = "new"
    /\ client_config' = None
    /\ system_prompt' = <<>>
    /\ conversation_history' = <<>>
    /\ started' = FALSE
    /\ user_message' = <<>>
    /\ context' = <<>>
    /\ full_prompt' = <<>>
    /\ ret' = NoCall
    /\ turns' = 0
    /\ at_entry' = [history |-> <<>>, backend_calls |-> backend_calls]

InitHarness ==
    /\ MAX_HISTORY = MAX_HISTORY_DEFAULT
    /\ CLOSING_WORDS \in ClosingWordsValues
    /\ pc = "new"
    /\ client_config = None
    /\ system_prompt = <<>>
    /\ conversation_history = <<>>
    /\ started = FALSE
    /\ user_message = <<>>
    /\ context = <<>>
    /\ full_prompt = <<>>
    /\ ret = NoCall
    /\ backend_calls = 0
    /\ turns = 0
    /\ at_entry = [history |-> <<>>, backend_calls |-> 0]
    /\ user_input = <<>>
    /\ hpc = "import"
    /\ GEMINI_API_KEY \in {"key", None}
    /\ store_keys \in HarnessStores
    /\ args \in [client : ClientArgs, iterations : IterationValues]
    /\ clients = <<>>
    /\ loop = NoLoop
    /\ current_test = 0
    /\ result = None
    /\ all_results = <<>>
    /\ analysis = <<>>
    /\ exit_status = None
    /\ GradioIdle
    /\ LoopIdle

\* the import of test_harness: `from agent import ...` runs agent.py, which
\* raises ValueError without the credential (agent.py:19-20), so that
\* lines 40-42 of the harness are reached only with it; an uncaught
\* exception ends the process with status 1.  load_config (agent.py:24-36)
\* returns the parsed document as it is and CLIENTS is its `clients` section
\* (agent.py:39): the store the run was configured with is the store in use
ImportHarness ==
    /\ hpc = "import"
    /\ IF GEMINI_API_KEY = None
       THEN /\ hpc' = "raised"
            /\ exit_status' = 1
       ELSE /\ hpc' = "main"
            /\ UNCHANGED exit_status
    /\ UNCHANGED <<sessionVars, gradioVars, loopVars, GEMINI_API_KEY, store_keys, args, clients, loop,
                   current_test, result, all_results, analysis>>

\* the position of the first test of the three nested loops of
\* run_all_tests, NoLoop when a loop is empty
FirstTest(client_list, iterations) ==
    IF Len(TEST_SCENARIOS) >= 1 /\ Len(client_list) >= 1 /\ iterations >= 1
    THEN [scenario |-> 1, client |-> 1, iteration |-> 1]
    ELSE NoLoop

\* a variant with the loop over the clients outermost
NextTest_ClientMajor(at, client_list, iterations) ==
    IF at.iteration < iterations THEN [at EXCEPT !.iteration = @ + 1]
    ELSE IF at.scenario < Len(TEST_SCENARIOS)
    THEN [at EXCEPT !.scenario = @ + 1, !.iteration = 1]
    ELSE IF at.client < Len(client_list)
    THEN [scenario |-> 1, client |-> at.client + 1, iteration |-> 1]
    ELSE NoLoop

\* the position after `at`: for scenario / for client_key / for iteration
NextTest(at, client_list, iterations) ==
    IF at.iteration < iterations THEN [at EXCEPT !.iteration = @ + 1]
    ELSE IF at.client < Len(client_list)
    THEN [at EXCEPT !.client = @ + 1, !.iteration = 1]
    ELSE IF at.scenario < Len(TEST_SCENARIOS)
    THEN [scenario |-> at.scenario + 1, client |-> 1, iteration |-> 1]
    ELSE NoLoop

\* main, lines 509-522: the clients to test, then the call of run_all_tests
Main ==
    /\ hpc = "main"
    /\ IF args.client # None /\ args.client \notin {store_keys[i] : i \in DOMAIN store_keys}
       THEN /\ hpc' = "exited"
            /\ exit_status' = 1
            /\ UNCHANGED <<clients, loop>>
       ELSE /\ clients' = IF args.client # None THEN <<args.client>> ELSE store_keys
            /\ loop' = FirstTest(clients', args.iterations)
            /\ hpc' = "loop"
            /\ UNCHANGED exit_status
    /\ UNCHANGED <<sessionVars, gradioVars, loopVars, GEMINI_API_KEY, store_keys, args, current_test,
                   result, all_results, analysis>>

\* run_all_tests line 245 and run_single_test line 180: the next test begins
BeginTest ==
    /\ hpc = "loop"
    /\ loop # NoLoop
    /\ current_test' = current_test + 1
    /\ result' = TestResult(TEST_SCENARIOS[loop.scenario].name, clients[loop.client],
                            loop.iteration)
    /\ hpc' = "test"
    /\ FreshSession
    /\ UNCHANGED <<MAX_HISTORY, CLOSING_WORDS, backend_calls, user_input, gradioVars, loopVars,
                   GEMINI_API_KEY, store_keys, args, clients, loop, all_results, analysis,
                   exit_status>>

\* line 184: agent = FrenchDebtCollectionAgent(client_key)
TestConstruct ==
    /\ hpc = "test"
    /\ Construct(result.client_key, None)

\* line 187: greeting = agent.start()
TestStart ==
    /\ hpc = "test"
    /\ Start

\* lines 188-192: the greeting entry of result.conversation
RecordGreeting ==
    /\ hpc = "test"
    /\ ret.op = "start"
    /\ result.conversation = <<>>
    /\ result' = [result EXCEPT !.conversation =
                      Append(@, [user |-> GREETING_MARK, agent |-> ret.value,
                                 response_time |-> 0])]
    /\ UNCHANGED <<sessionVars, gradioVars, loopVars, hpc, GEMINI_API_KEY, store_keys, args, clients,
                   loop, current_test, all_results, analysis, exit_status>>

\* the scripted conversation of the test in progress
Script == TEST_SCENARIOS[loop.scenario].conversation

\* a variant of TestTurn that takes the utterances of the script from its end
TestTurn_LastFirst ==
    /\ hpc = "test"
    /\ Len(result.conversation) = 1 + turns
    /\ turns < Len(Script)
    /\ GenerateResponse(Script[Len(Script) - turns])

\* line 199: agent.generate_response(user_msg) for the next utterance of the
\* script, once the exchange before it is recorded
TestTurn ==
    /\ hpc = "test"
    /\ Len(result.conversation) = 1 + turns
    /\ turns < Len(Script)
    /\ GenerateResponse(Script[turns + 1])

TestBackendReturns(text) ==
    /\ hpc = "test"
    /\ BackendReturns(text)

TestBackendRaises(e) ==
    /\ hpc = "test"
    /\ BackendRaises(e)

\* lines 200-203: result.add_exchange(user_msg, agent_response, response_time)
AddExchange(response_time) ==
    /\ hpc = "test"
    /\ pc = "idle"
    /\ ret.op = "generate_response"
    /\ result.turns < turns
    /\ result' = [add_exchange(result, user_message, ret.value, response_time)
                     EXCEPT !.calls = IF ret.via = "preset" THEN @ ELSE @ + 1,
                            !.errors = IF ret.via = "except" THEN @ + 1 ELSE @]
    /\ UNCHANGED <<sessionVars, gradioVars, loopVars, hpc, GEMINI_API_KEY, store_keys, args, clients,
                   loop, current_test, all_results, analysis, exit_status>>

\* the loop over the script is done: lines 212-217 and 222, then line 249 of
\* run_all_tests and the next round of its loops
FinishTest ==
    /\ hpc = "test"
    /\ pc = "idle"
    /\ Len(result.conversation) = 1 + Len(Script)
    /\ LET closed == ProperlyClosed(result.conversation)
           done   == finalize([result EXCEPT !.properly_closed = closed], closed)
       IN  all_results' = Append(all_results, done)
    /\ result' = None
    /\ loop' = NextTest(loop, clients, args.iterations)
    /\ hpc' = "loop"
    /\ UNCHANGED <<sessionVars, gradioVars, loopVars, GEMINI_API_KEY, store_keys, args, clients,
                   current_test, analysis, exit_status>>

\* a variant of TestRaised that lets the exception end the run
TestRaised_Abort ==
    /\ hpc = "test"
    /\ pc = "init_failed"
    /\ all_results' = Append(all_results, set_error(result, ExceptionMessage(ret.value)))
    /\ result' = None
    /\ loop' = NoLoop
    /\ hpc' = "loop"
    /\ UNCHANGED <<sessionVars, gradioVars, loopVars, GEMINI_API_KEY, store_keys, args, clients,
                   current_test, analysis, exit_status>>

\* lines 219-222: an Exception left the try block (the constructor raised),
\* result.set_error(str(e)); then line 249 and the next round of the loops
TestRaised ==
    /\ hpc = "test"
    /\ pc = "init_failed"
    /\ all_results' = Append(all_results, set_error(result, ExceptionMessage(ret.value)))
    /\ result' = None
    /\ loop' = NextTest(loop, clients, args.iterations)
    /\ hpc' = "loop"
    /\ UNCHANGED <<sessionVars, gradioVars, loopVars, GEMINI_API_KEY, store_keys, args, clients,
                   current_test, analysis, exit_status>>

\* line 262: run_all_tests returns all_results
EndRun ==
    /\ hpc = "loop"
    /\ loop = NoLoop
    /\ hpc' = "ran"
    /\ UNCHANGED <<sessionVars, gradioVars, loopVars, GEMINI_API_KEY, store_keys, args, clients, loop,
                   current_test, result, all_results, analysis, exit_status>>

\* line 525: analysis = analyze_results(results)
AnalyzeResults ==
    /\ hpc = "ran"
    /\ analysis' = analyze_results(all_results)
    /\ hpc' = "analyzed"
    /\ UNCHANGED <<sessionVars, gradioVars, loopVars, GEMINI_API_KEY, store_keys, args, clients, loop,
                   current_test, result, all_results, exit_status>>

\* lines 528-542: the summary is printed, the report written, and the
\* process exits.  analysis['total_tests'] of an empty dict raises KeyError
\* at line 531: nothing catches it, the process ends with status 1 ("raised":
\* ended by an uncaught exception, "exited": ended by sys.exit).
ExitMain ==
    /\ hpc = "analyzed"
    /\ exit_status' = IF "total_tests" \notin DOMAIN analysis THEN 1
                      ELSE IF analysis.success_rate.num = 100 * analysis.success_rate.den
                      THEN 0 ELSE 1
    /\ hpc' = IF "total_tests" \notin DOMAIN analysis THEN "raised" ELSE "exited"
    /\ UNCHANGED <<sessionVars, gradioVars, loopVars, GEMINI_API_KEY, store_keys, args, clients, loop,
                   current_test, result, all_results, analysis>>

NextHarness ==
    \/ ImportHarness
    \/ Main
    \/ BeginTest
    \/ TestConstruct
    \/ TestStart
    \/ RecordGreeting
    \/ TestTurn
    \/ \E text \in HarnessBackendTexts : TestBackendReturns(text)
    \/ \E e \in BackendErrors : TestBackendRaises(e)
    \/ \E t \in HarnessLatencies : AddExchange(t)
    \/ FinishTest
    \/ TestRaised
    \/ EndRun
    \/ AnalyzeResults
    \/ ExitMain

SpecHarness == InitHarness /\ [][NextHarness]_vars

(***************************************************************************)
(* Properties of a harness run.                                            *)
(***************************************************************************)
\* the run has come back from run_all_tests
RunDone == hpc \in {"ran", "analyzed"} \/ (hpc = "exited" /\ DOMAIN analysis # {})

\* analyze_results has returned the analysis of a non-empty list of results
Analyzed == hpc = "analyzed" /\ "total_tests" \in DOMAIN analysis

\* the (scenario, client, iteration) combination that stands at place idx
\* when the combinations are listed scenario by scenario, within a scenario
\* client by client, within a client by iteration 1..K
CombinationAt(idx, C, K) ==
    [scenario  |-> ((idx - 1) \div (C * K)) + 1,
     client    |-> (((idx - 1) % (C * K)) \div K) + 1,
     iteration |-> ((idx - 1) % K) + 1]

\* C12: run_all_tests returns |scenarios| x |clients| x K TestResults, one
\* for each (scenario, client, iteration in 1..K) combination, in the order
\* scenario-major, then client, then iteration; while it runs, the results
\* it has are the first ones of that order.
C12_ResultsAreTheMatrixInOrder ==
    LET S == Len(TEST_SCENARIOS)
        C == Len(clients)
        K == args.iterations
    IN  /\ \A idx \in DOMAIN all_results :
              LET at == CombinationAt(idx, C, K)
                  r  == all_results[idx]
              IN  /\ idx <= S * C * K
                  /\ r.scenario_name = TEST_SCENARIOS[at.scenario].name
                  /\ r.client_key = clients[at.client]
                  /\ r.iteration = at.iteration
        /\ hpc = "ran" => Len(all_results) = S * C * K

\* two scenarios, two clients, two iterations: eight results
C12_Witness ==
    /\ hpc = "ran"
    /\ Len(clients) = 2
    /\ args.iterations = 2
    /\ Len(all_results) = 8

\* the message of the exception the constructor raises for a profile
ConstructorMessage(cfg) ==
    IF "client_name" \notin DOMAIN cfg THEN MSG_KEYERROR_CLIENT_NAME
    ELSE MSG_KEYERROR_CLOSING_LINE

\* C13: an exception that escapes the construction of the session or a turn
\* of a test is recorded as the failure of that test, success false and
\* failure_reason "API Error: <message>", and the run goes on: every
\* combination after it is run and has its TestResult.
C13_ExceptionRecordedRunContinues ==
    /\ \A idx \in DOMAIN all_results :
          LET r == all_results[idx]
          IN  ~HasPromptFields(CLIENTS[r.client_key]) =>
                  /\ ~r.success
                  /\ ~r.error_message.none
                  /\ r.error_message.text = ConstructorMessage(CLIENTS[r.client_key])
                  /\ ~r.failure_reason.none
                  /\ r.failure_reason.text = API_ERROR_PREFIX \o r.error_message.text
    /\ hpc = "test" /\ pc = "init_failed" => ENABLED TestRaised
    /\ hpc = "loop" /\ loop # NoLoop => ENABLED BeginTest
    /\ RunDone =>
          Len(all_results) = Len(TEST_SCENARIOS) * Len(clients) * args.iterations

\* the run is over; a test whose constructor raised is followed by a test
\* that ran
C13_Witness ==
    /\ hpc = "ran"
    /\ \E idx \in DOMAIN all_results :
          /\ idx < Len(all_results)
          /\ ~all_results[idx].success
          /\ all_results[idx].failure_reason.text =
                 API_ERROR_PREFIX \o MSG_KEYERROR_CLOSING_LINE
          /\ all_results[idx + 1].success
          /\ all_results[idx + 1].turns = 2

HasClosingAck(text) ==
    \E ack \in {IND_AU_REVOIR, IND_A_BIENTOT, IND_FIN, IND_QUITTER, IND_MERCI} :
        Contains(ack, lower(text))

\* the result has a final agent utterance, and it holds such a phrase
ClosedByFinalUtterance(r) ==
    /\ r.conversation # <<>>
    /\ HasClosingAck(r.conversation[Len(r.conversation)].agent)

C19_ExitZeroIffAllSucceeded ==
    hpc \in {"exited", "raised"} =>
        IF \/ GEMINI_API_KEY = None
           \/ /\ args.client # None
              /\ args.client \notin {store_keys[i] : i \in DOMAIN store_keys}
        THEN exit_status # 0
        ELSE (exit_status = 0) = (\A idx \in DOMAIN all_results : all_results[idx].success)

(***************************************************************************)
(* analyze_results on its own: main has come back from run_all_tests with  *)
(* a list of finished TestResults, and analyses it.  The pooled latencies  *)
(* are k times one value followed by n - k times another, for every        *)
(* n <= MaxSampleLen and k <= n, given to analyze_results as the           *)
(* response_times of two results.                                          *)
(***************************************************************************)
Samples ==
    UNION { { [i \in 1..n |-> IF i <= k THEN a ELSE b] :
                  k \in 0..n, a \in LatencyValues, b \in LatencyValues } :
            n \in 1..MaxSampleLen }

RECURSIVE Exchanges(_, _)
\* r after one add_exchange for each latency of times
Exchanges(r, times) ==
    IF times = <<>> THEN r
    ELSE Exchanges(add_exchange(r, U_BONJOUR, T_MERCI, Head(times)), Tail(times))

\* a TestResult as run_single_test returns it after exchanges of these
\* latencies
FinishedResult(scenario_name, times) ==
    LET r0 == [TestResult(scenario_name, "dell", 1) EXCEPT !.conversation =
                  <<[user |-> GREETING_MARK,
                     agent |-> get_greeting(CLIENTS["dell"]), response_time |-> 0]>>]
        r1 == [Exchanges(r0, times) EXCEPT !.calls = Len(times)]
    IN  finalize([r1 EXCEPT !.properly_closed = ProperlyClosed(r1.conversation)],
                 ProperlyClosed(r1.conversation))

\* the results of the two scenarios, the first with the first half of the
\* sample
StatsResults ==
    { LET h == Len(sample) \div 2
      IN  << FinishedResult(TEST_SCENARIOS[1].name, SubSeq(sample, 1, h)),
             FinishedResult(TEST_SCENARIOS[2].name, SubSeq(sample, h + 1, Len(sample))) >> :
      sample \in Samples }

InitStats ==
    /\ MAX_HISTORY = MAX_HISTORY_DEFAULT
    /\ CLOSING_WORDS \in ClosingWordsValues
    /\ pc = "new"
    /\ client_config = None
    /\ system_prompt = <<>>
    /\ conversation_history = <<>>
    /\ started = FALSE
    /\ user_message = <<>>
    /\ context = <<>>
    /\ full_prompt = <<>>
    /\ ret = NoCall
    /\ backend_calls = 0
    /\ turns = 0
    /\ at_entry = [history |-> <<>>, backend_calls |-> 0]
    /\ user_input = <<>>
    /\ hpc = "ran"
    /\ GEMINI_API_KEY = "key"
    /\ store_keys = <<"dell">>
    /\ args = [client |-> "dell", iterations |-> 1]
    /\ clients = <<"dell">>
    /\ loop = NoLoop
    /\ current_test = 2
    /\ result = None
    /\ all_results \in StatsResults
    /\ analysis = <<>>
    /\ exit_status = None
    /\ GradioIdle
    /\ LoopIdle

NextStats == AnalyzeResults \/ ExitMain

SpecStats == InitStats /\ [][NextStats]_vars

\* the pooled sample of the results
Sample == Pooled(all_results)

\* min(xs) of a non-empty list
MinOf(xs) == CHOOSE x \in {xs[i] : i \in DOMAIN xs} : \A j \in DOMAIN xs : x <= xs[j]

\* C17 (as claimed): for every non-empty sample, the reported p95 is at
\* least the mean and at most the maximum.
C17_P95BetweenMeanAndMax ==
    (hpc = "analyzed" /\ Sample # <<>>) =>
        /\ analysis.p95_response_time * Len(Sample) >= SumOf(Sample)
        /\ analysis.p95_response_time <= analysis.max_response_time

\* C17 (amended): for every non-empty sample, the reported p95 is at most
\* the maximum and at least the minimum; for a sample of up to 20 latencies
\* it is the maximum, and so at least the mean.
C17_P95BetweenMinAndMax ==
    (hpc = "analyzed" /\ Sample # <<>>) =>
        /\ analysis.max_response_time = MaxOf(Sample)
        /\ analysis.avg_response_time = [num |-> SumOf(Sample), den |-> Len(Sample)]
        /\ analysis.p95_response_time <= analysis.max_response_time
        /\ analysis.p95_response_time >= MinOf(Sample)
        /\ Len(Sample) <= 20 =>
              /\ analysis.p95_response_time = analysis.max_response_time
              /\ analysis.p95_response_time * Len(Sample) >= SumOf(Sample)

\* a sample of 21 latencies whose p95 is below its mean
C17_Witness ==
    /\ hpc = "analyzed"
    /\ Len(Sample) = 21
    /\ analysis.p95_response_time * 21 < SumOf(Sample)
    /\ analysis.p95_response_time < analysis.max_response_time

\* ceil(0.95 * n)
NearestRank(n) == (95 * n + 99) \div 100

\* C18 (as claimed): for every non-empty sample of n latencies, the
\* reported p95 is the element of rank ceil(0.95 n) of the ascending
\* sample, and the index the code reads is within the sample.
C18_P95IsNearestRank ==
    (hpc = "analyzed" /\ Sample # <<>>) =>
        /\ P95Index(Len(Sample)) \in 0..(Len(Sample) - 1)
        /\ analysis.p95_response_time = sorted(Sample)[NearestRank(Len(Sample))]

(***************************************************************************)
(* gradio_app.py: the web interface.  The module holds one global,         *)
(* `current_agent`; the handlers initialize_agent, reset_conversation,     *)
(* run_demo_scenario and process_message are called for whichever browser  *)
(* session triggers them.  A caller of Callers is one browser session.     *)
(***************************************************************************)
\* VoiceAgent objects created in one run of the interface
MaxAgents == 2

\* process_message begins a turn on a VoiceAgent only while the history of the
\* VoiceAgent is shorter than 1 + 2 * MaxMessages
MaxMessages == 1

\* process_message calls that wait for the backend at the same time
MaxInFlight == 2

\* "etes-vous un robot" (with the circumflex)
RP_01 ==
    <<"e-circ", "t", "e", "s", "-", "v", "o", "u", "s", " ", "u", "n", " ", "r", "o", "b",
    "o", "t">>

\* "vous etes un robot" (with the circumflex)
RP_02 ==
    <<"v", "o", "u", "s", " ", "e-circ", "t", "e", "s", " ", "u", "n", " ", "r", "o", "b",
    "o", "t">>

\* "c'est un robot"
RP_03 ==
    <<"c", "'", "e", "s", "t", " ", "u", "n", " ", "r", "o", "b", "o", "t">>

\* "vous etes automat" (with the circumflex)
RP_04 ==
    <<"v", "o", "u", "s", " ", "e-circ", "t", "e", "s", " ", "a", "u", "t", "o", "m", "a", "t">>

\* "vous etes une ia" (with the circumflex)
RP_05 ==
    <<"v", "o", "u", "s", " ", "e-circ", "t", "e", "s", " ", "u", "n", "e", " ", "i", "a">>

\* "vous etes une machine" (with the circumflex)
RP_06 ==
    <<"v", "o", "u", "s", " ", "e-circ", "t", "e", "s", " ", "u", "n", "e", " ", "m", "a",
    "c", "h", "i", "n", "e">>

\* "are you a robot"
RP_07 ==
    <<"a", "r", "e", " ", "y", "o", "u", " ", "a", " ", "r", "o", "b", "o", "t">>

\* "are you a bot"
RP_08 ==
    <<"a", "r", "e", " ", "y", "o", "u", " ", "a", " ", "b", "o", "t">>

\* "are you automated"
RP_09 ==
    <<"a", "r", "e", " ", "y", "o", "u", " ", "a", "u", "t", "o", "m", "a", "t", "e", "d">>

\* "is this automated"
RP_10 ==
    <<"i", "s", " ", "t", "h", "i", "s", " ", "a", "u", "t", "o", "m", "a", "t", "e", "d">>

\* "real person"
RP_11 ==
    <<"r", "e", "a", "l", " ", "p", "e", "r", "s", "o", "n">>

\* "vraie personne"
RP_12 ==
    <<"v", "r", "a", "i", "e", " ", "p", "e", "r", "s", "o", "n", "n", "e">>

\* "real human"
RP_13 ==
    <<"r", "e", "a", "l", " ", "h", "u", "m", "a", "n">>

\* "Une erreur s'est produite. Pouvez-vous repeter?" (with the acute accents)
VOICE_APOLOGY ==
    <<"U", "n", "e", " ", "e", "r", "r", "e", "u", "r", " ", "s", "'", "e", "s", "t", " ",
    "p", "r", "o", "d", "u", "i", "t", "e", ".", " ", "P", "o", "u", "v", "e", "z", "-", "v",
    "o", "u", "s", " ", "r", "e-acute", "p", "e-acute", "t", "e", "r", "?">>

\* "Bonjour."
M_BONJOUR ==
    <<"B", "o", "n", "j", "o", "u", "r", ".">>

\* "Vous etes un robot?" (with the circumflex)
M_ROBOT ==
    <<"V", "o", "u", "s", " ", "e-circ", "t", "e", "s", " ", "u", "n", " ", "r", "o", "b",
    "o", "t", "?">>

\* two spaces
M_BLANK ==
    <<" ", " ">>

\* a client name no configured client has
NAME_UNLISTED ==
    <<"N", "o", "b", "o", "d", "y">>

\* the clients of the configuration the interface runs with, in file order
GradioKeys == SubSeq(CLIENT_KEYS, 1, 3)

\* a value of the client drop-down, and a name that is not among them
ClientNames == {NAME_AMAZON, NAME_UNLISTED}

\* texts typed into the message box
Messages == {M_BONJOUR, M_ROBOT, M_BLANK}

DEMO_SCENARIOS ==
    [name \in {"Scenario 3: Robot Question Detection"} |->
        [client |-> "microsoft", messages |-> <<M_BONJOUR, M_ROBOT>>]]

\* the values of the scenario selector, and one that is not a scenario
ScenarioNames == DOMAIN DEMO_SCENARIOS \cup {"unknown"}

\* outcomes of self.model.generate_content: a response with a text, or an
\* exception
GradioBackend == {[raised |-> FALSE, text |-> T_MERCI], [raised |-> TRUE, text |-> <<>>]}

WHITESPACE == {" ", "\n", "\t"}

RECURSIVE lstrip(_)
lstrip(text) ==
    IF text # <<>> /\ Head(text) \in WHITESPACE THEN lstrip(Tail(text)) ELSE text

RECURSIVE rstrip(_)
rstrip(text) ==
    IF text # <<>> /\ text[Len(text)] \in WHITESPACE
    THEN rstrip(SubSeq(text, 1, Len(text) - 1))
    ELSE text

\* str.strip()
strip(text) == rstrip(lstrip(text))

robot_patterns ==
    <<RP_01, RP_02, RP_03, RP_04, RP_05, RP_06, RP_07, RP_08, RP_09, RP_10, RP_11,
      RP_12, RP_13>>

\* VoiceAgent.is_robot_question
VoiceAgent_is_robot_question(text) ==
    LET text_lower == strip(lower(text))
    IN  \E i \in DOMAIN robot_patterns : Contains(robot_patterns[i], text_lower)

\* VoiceAgent.get_greeting: the three templates are those of agent.py
VoiceAgent_get_greeting(cfg) == get_greeting(cfg)

\* VoiceAgent.get_robot_response: the three templates are those of agent.py
VoiceAgent_get_robot_response(cfg) == get_robot_response(cfg)

\* VoiceAgent(client_key), for a key of CLIENTS.  fed_by is a history field:
\* for every turn fed into this object, the caller whose message it was and the
\* VoiceAgent that caller had created last.
VoiceAgent(client_key) ==
    [client_key |-> client_key, conversation_history |-> <<>>, fed_by |-> {}]

\* VoiceAgent.generate_response
VoiceAgent_generate_response(agent, message, backend) ==
    LET cfg      == CLIENTS[agent.client_key]
        history  == Append(agent.conversation_history, ClientTurn(message))
        response == IF VoiceAgent_is_robot_question(message)
                    THEN VoiceAgent_get_robot_response(cfg)
                    ELSE IF backend.raised THEN VOICE_APOLOGY ELSE backend.text
    IN  [agent EXCEPT !.conversation_history = Append(history, AgentTurn(response))]

\* the first key of CLIENTS whose client_name is the given one, else the first
\* key
KeyOfName(client_name) ==
    LET hits == {i \in DOMAIN GradioKeys : CLIENTS[GradioKeys[i]].client_name = client_name}
    IN  IF hits = {} THEN GradioKeys[1]
        ELSE GradioKeys[CHOOSE i \in hits : \A j \in hits : i <= j]

\* a VoiceAgent that has greeted
Greeted(client_key) ==
    LET agent == VoiceAgent(client_key)
    IN  [agent EXCEPT !.conversation_history =
            <<AgentTurn(VoiceAgent_get_greeting(CLIENTS[client_key]))>>]

InitGradio ==
    /\ MAX_HISTORY = MAX_HISTORY_DEFAULT
    /\ CLOSING_WORDS \in ClosingWordsValues
    /\ pc = "new"
    /\ client_config = None
    /\ system_prompt = <<>>
    /\ conversation_history = <<>>
    /\ started = FALSE
    /\ user_message = <<>>
    /\ context = <<>>
    /\ full_prompt = <<>>
    /\ ret = NoCall
    /\ backend_calls = 0
    /\ user_input = <<>>
    /\ turns = 0
    /\ at_entry = [history |-> <<>>, backend_calls |-> 0]
    /\ HarnessIdle
    /\ GradioIdle
    /\ LoopIdle

\* initialize_agent(client_name), called for caller c
InitializeAgent(c, client_name) ==
    /\ Len(agents) < MaxAgents
    /\ agents' = Append(agents, Greeted(KeyOfName(client_name)))
    /\ current_agent' = Len(agents) + 1
    /\ created_by' = [created_by EXCEPT ![c] = Len(agents) + 1]
    /\ UNCHANGED <<in_flight, sessionVars, harnessVars, loopVars>>

\* reset_conversation(client_name), called for caller c
ResetConversation(c, client_name) ==
    /\ Len(agents) < MaxAgents
    /\ agents' = Append(agents, Greeted(KeyOfName(client_name)))
    /\ current_agent' = Len(agents) + 1
    /\ created_by' = [created_by EXCEPT ![c] = Len(agents) + 1]
    /\ UNCHANGED <<in_flight, sessionVars, harnessVars, loopVars>>

\* process_message(user_message, ...), called for caller c, up to its return
\* or up to the call of the backend inside generate_response.  The interface
\* runs a handler for every event in a worker thread and gradio_app.py holds no
\* lock: while one call waits for the backend, other handlers run.
\* `current_agent.generate_response` reads the global once; the call goes on
\* with that object.
ProcessMessage(c, message) ==
    /\ IF current_agent = NoAgent \/ strip(message) = <<>>
       THEN UNCHANGED <<agents, in_flight>>
       ELSE /\ Len(agents[current_agent].conversation_history) < 1 + 2 * MaxMessages
            /\ LET agent    == agents[current_agent]
                   turn     == [caller |-> c, session |-> created_by[c]]
                   history1 == Append(agent.conversation_history, ClientTurn(message))
               IN  IF VoiceAgent_is_robot_question(message)
                   THEN /\ agents' = [agents EXCEPT ![current_agent] =
                               [agent EXCEPT
                                   !.conversation_history =
                                       Append(history1,
                                              AgentTurn(VoiceAgent_get_robot_response(
                                                            CLIENTS[agent.client_key]))),
                                   !.fed_by = @ \cup {turn}]]
                        /\ UNCHANGED in_flight
                   ELSE /\ Len(in_flight) < MaxInFlight
                        /\ agents' = [agents EXCEPT ![current_agent] =
                               [agent EXCEPT !.conversation_history = history1,
                                             !.fed_by = @ \cup {turn}]]
                        /\ in_flight' = Append(in_flight,
                                               [caller |-> c, agent |-> current_agent])
    /\ UNCHANGED <<current_agent, created_by, sessionVars, harnessVars, loopVars>>

\* the sequence without its k-th element
RemoveAt(seq, k) == SubSeq(seq, 1, k - 1) \o SubSeq(seq, k + 1, Len(seq))

\* the backend call of the k-th waiting process_message resolves: lines 221-229
\* of generate_response, then the rest of process_message
ProcessMessageResolves(k, backend) ==
    /\ k \in DOMAIN in_flight
    /\ LET self     == in_flight[k].agent
           response == IF backend.raised THEN VOICE_APOLOGY ELSE backend.text
       IN  agents' = [agents EXCEPT ![self].conversation_history =
                         Append(@, AgentTurn(response))]
    /\ in_flight' = RemoveAt(in_flight, k)
    /\ UNCHANGED <<current_agent, created_by, sessionVars, harnessVars, loopVars>>

RECURSIVE FeedAll(_, _, _)
\* the loop of run_demo_scenario over scenario["messages"]
FeedAll(agent, messages, backends) ==
    IF messages = <<>> THEN agent
    ELSE FeedAll(VoiceAgent_generate_response(agent, Head(messages), Head(backends)),
                 Tail(messages), Tail(backends))

\* run_demo_scenario(scenario_name), called for caller c.  Its turns are taken
\* in one step: the interleavings of process_message are the ones looked at.
RunDemoScenario(c, scenario_name, backends) ==
    /\ IF scenario_name \notin DOMAIN DEMO_SCENARIOS
       THEN UNCHANGED <<agents, current_agent, created_by>>
       ELSE /\ Len(agents) < MaxAgents
            /\ LET scenario == DEMO_SCENARIOS[scenario_name]
                   agent    == FeedAll(Greeted(scenario.client), scenario.messages,
                                       backends)
                   turn     == [caller |-> c, session |-> Len(agents) + 1]
               IN  agents' = Append(agents, [agent EXCEPT !.fed_by = {turn}])
            /\ current_agent' = Len(agents) + 1
            /\ created_by' = [created_by EXCEPT ![c] = Len(agents) + 1]
    /\ UNCHANGED <<in_flight, sessionVars, harnessVars, loopVars>>

NextGradio ==
    \/ \E c \in Callers, client_name \in ClientNames : InitializeAgent(c, client_name)
    \/ \E c \in Callers, client_name \in ClientNames : ResetConversation(c, client_name)
    \/ \E c \in Callers, message \in Messages : ProcessMessage(c, message)
    \/ \E k \in 1..MaxInFlight, backend \in GradioBackend :
          ProcessMessageResolves(k, backend)
    \/ \E c \in Callers, scenario_name \in ScenarioNames,
          backends \in [1..2 -> GradioBackend] :
          RunDemoScenario(c, scenario_name, backends)

SpecGradio == InitGradio /\ [][NextGradio]_vars

\* the VoiceAgent objects whose history differs between the two states of a step
Touched ==
    {i \in DOMAIN agents : agents'[i].conversation_history # agents[i].conversation_history}

\* C20: no Session is shared across callers and Sessions share no mutable
\* state: every turn in a Session's history was fed by a caller into the Session
\* that caller created (last), and a step changes the history of at most one
\* Session that exists.
C20_NoSessionSharedAcrossCallers ==
    /\ [](\A i \in DOMAIN agents : \A turn \in agents[i].fed_by : turn.session = i)
    /\ [][Cardinality(Touched) <= 1]_vars

(***************************************************************************)
(* Loading of the configuration.                                           *)
(***************************************************************************)
\* the fields __init__ reads from a profile without a default
\* (build_system_prompt: client_name, closing_line)
RequiredFields == {"client_name", "closing_line"}

\* the import of agent.py, load_config included, has completed
ConfigLoaded == hpc # "import" /\ GEMINI_API_KEY # None

\* C21: a profile that lacks a required field is rejected when the
\* configuration is loaded: whenever loading has completed, every profile of
\* the client store has the required fields.
C21_IncompleteProfileRejectedAtLoad ==
    ConfigLoaded =>
        \A i \in DOMAIN store_keys : RequiredFields \subseteq DOMAIN CLIENTS[store_keys[i]]

(***************************************************************************)
(* What the conversational channel shows.                                  *)
(***************************************************************************)
\* the texts an agent utterance of the session may be
InCharacterTexts ==
    {get_greeting(client_config), get_robot_response(client_config), error_msg}
        \cup BackendTexts

\* the text holds the message of an error the backend may raise
ShowsBackendError(text) == \E e \in BackendErrors : Contains(ErrorText(e), text)

\* C22: every utterance start() or generate_response returned and every agent
\* turn of the history is the greeting of the profile's tone, a text the backend
\* generated, the preset denial or the fixed apology, and none holds the message
\* of a backend error.
C22_OnlyInCharacterText ==
    started =>
        /\ ret.op = "start" => ret.value = get_greeting(client_config)
        /\ (ret.op = "generate_response" /\ ret.via \in {"preset", "backend", "except"}) =>
              /\ ~ret.raised
              /\ ret.value \in InCharacterTexts
              /\ ~ShowsBackendError(ret.value)
        /\ \A i \in DOMAIN conversation_history :
              IsPrefix(PREFIX_AGENT, conversation_history[i]) =>
                  /\ \E text \in InCharacterTexts : conversation_history[i] = AgentTurn(text)
                  /\ ~ShowsBackendError(conversation_history[i])

\* a session whose first turn the backend answered and whose second turn ended
\* with a backend error
C22_Witness ==
    /\ started
    /\ ret.op = "generate_response" /\ ret.via = "except"
    /\ Len(conversation_history) = 5
    /\ \E text \in BackendTexts : conversation_history[3] = AgentTurn(text)
    /\ conversation_history[5] = AgentTurn(error_msg)

(***************************************************************************)
(* The cost of a harness run.                                              *)
(***************************************************************************)
\* C23: a harness run makes exactly |scenarios| x |clients| x iterations
\* backend calls.
C23_OneBackendCallPerTest ==
    RunDone => backend_calls = Len(TEST_SCENARIOS) * Len(clients) * args.iterations

\* C24: a test passes (success is true, it is counted in passed_tests) only if
\* the agent generated every response without error and properly closed the
\* conversation.
C24_PassNeedsNoErrorAndClose ==
    /\ \A idx \in DOMAIN all_results :
          all_results[idx].success =>
              (all_results[idx].errors = 0 /\ all_results[idx].properly_closed)
    /\ Analyzed =>
          analysis.passed_tests <=
              Cardinality({idx \in DOMAIN all_results :
                              /\ all_results[idx].errors = 0
                              /\ all_results[idx].properly_closed})

\* the entry of a history is a turn of the given speaker
IsTurnOf(prefix, entry) == Len(prefix) <= Len(entry) /\ SubSeq(entry, 1, Len(prefix)) = prefix

\* C25: turns within one Session are strictly sequential: no generate_response
\* on a Session begins while another one on that Session waits for the backend,
\* and in every history each user turn is immediately followed by an agent turn
\* (the last entry may be the user turn of the call that is under way).
C25_TurnsStrictlySequential ==
    \A a \in DOMAIN agents :
        LET history == agents[a].conversation_history
        IN  /\ Cardinality({k \in DOMAIN in_flight : in_flight[k].agent = a}) <= 1
            /\ \A i \in 1..(Len(history) - 1) :
                  IsTurnOf(PREFIX_CLIENT, history[i]) =>
                      IsTurnOf(PREFIX_AGENT, history[i + 1])

(***************************************************************************)
(* The replay of one scenario.                                             *)
(***************************************************************************)
\* the scripted conversation of the scenario of the given name
ScriptOf(scenario_name) ==
    LET k == CHOOSE i \in DOMAIN TEST_SCENARIOS : TEST_SCENARIOS[i].name = scenario_name
    IN  TEST_SCENARIOS[k].conversation

\* C26: for each combination the harness creates a fresh Session with an empty
\* history, calls start() once before any generate_response, and feeds every
\* utterance of the script once and in order; a TestResult that finished
\* without exception has as many exchanges and latencies as the script has
\* utterances, after one greeting entry.
C26_ScriptReplayedOnceInOrder ==
    /\ hpc = "test" =>
          /\ ~started => (conversation_history = <<>> /\ turns = 0)
          /\ started =>
                /\ conversation_history[1] = AgentTurn(get_greeting(client_config))
                /\ turns <= Len(Script)
                /\ Len(conversation_history) = IF pc = "calling" THEN 2 * turns
                                               ELSE 1 + 2 * turns
                /\ \A k \in 1..turns :
                      /\ conversation_history[2 * k] = ClientTurn(Script[k])
                      /\ (2 * k + 1) \in DOMAIN conversation_history =>
                            IsPrefix(PREFIX_AGENT, conversation_history[2 * k + 1])
                /\ \A k \in 1..result.turns : result.conversation[k + 1].user = Script[k]
    /\ \A idx \in DOMAIN all_results :
          LET r      == all_results[idx]
              script == ScriptOf(r.scenario_name)
          IN  r.error_message.none =>
                  /\ r.turns = Len(script)
                  /\ Len(r.response_times) = Len(script)
                  /\ Len(r.conversation) = 1 + Len(script)
                  /\ r.conversation[1].user = GREETING_MARK
                  /\ \A k \in 1..Len(script) : r.conversation[k + 1].user = script[k]

\* a test of the scenario "Robot Question Detection" has finished without
\* exception, and the session it ran holds the greeting and the two exchanges
C26_Witness ==
    /\ hpc = "loop"
    /\ started
    /\ Len(conversation_history) = 5
    /\ all_results # <<>>
    /\ LET r == all_results[Len(all_results)]
       IN  /\ r.scenario_name = "Robot Question Detection"
           /\ r.error_message.none
           /\ r.turns = 2

(***************************************************************************)
(* run_agent (agent.py:338-376): the interactive loop.  It constructs a     *)
(* session, starts it, and then reads line after line from the operator.   *)
(***************************************************************************)
\* lines read by one run of the loop
MaxInputs == 3

\* what the operator types: nothing but blanks, a plain utterance, an identity
\* challenge, a closing signal, a closing signal in upper case with blanks
\* around it
LoopInputs == {M_BLANK, U_BONJOUR, U_ROBOT, U_AU_REVOIR, <<" ">> \o U_AU_REVOIR_UPPER \o <<" ">>}

\* the clients run_agent is started for
LoopClients == {None, "dell", "unknown"}

InitLoop ==
    /\ MAX_HISTORY = MAX_HISTORY_DEFAULT
    /\ CLOSING_WORDS \in ClosingWordsValues
    /\ pc = "new"
    /\ client_config = None
    /\ system_prompt = <<>>
    /\ conversation_history = <<>>
    /\ started = FALSE
    /\ user_message = <<>>
    /\ context = <<>>
    /\ full_prompt = <<>>
    /\ ret = NoCall
    /\ backend_calls = 0
    /\ user_input = <<>>
    /\ turns = 0
    /\ at_entry = [history |-> <<>>, backend_calls |-> 0]
    /\ HarnessIdle
    /\ GradioIdle
    /\ rpc = "input"
    /\ inputs = <<>>

\* line 345: agent = FrenchDebtCollectionAgent(client_key); an exception leaves
\* run_agent
LoopConstruct(client_key) ==
    /\ rpc = "input"
    /\ Construct(client_key, None)

\* line 355: greeting = agent.start()
LoopStart ==
    /\ rpc = "input"
    /\ Start

\* lines 360-363: user_input = input("Vous: ").strip(); an empty one is skipped
LoopRead(line) ==
    /\ rpc = "input"
    /\ started
    /\ Len(inputs) < MaxInputs
    /\ inputs' = Append(inputs, line)
    /\ rpc' = IF strip(line) = <<>> THEN "input" ELSE "check"
    /\ UNCHANGED <<sessionVars, harnessVars, gradioVars>>

\* line 366: agent.is_closing_message(user_input)
LoopCheck ==
    /\ rpc = "check"
    /\ ret.op # "is_closing_message"
    /\ IsClosingMessage(strip(inputs[Len(inputs)]))

\* a variant of LoopBranch that never leaves the loop
LoopBranch_NoBreak ==
    /\ rpc = "check"
    /\ ret.op = "is_closing_message"
    /\ rpc' = "respond"
    /\ UNCHANGED <<sessionVars, harnessVars, gradioVars, inputs>>

\* lines 366-372: the farewell is printed and the loop left when the input is a
\* closing signal
LoopBranch ==
    /\ rpc = "check"
    /\ ret.op = "is_closing_message"
    /\ rpc' = IF ret.value THEN "done" ELSE "respond"
    /\ UNCHANGED <<sessionVars, harnessVars, gradioVars, inputs>>

\* line 375: response = agent.generate_response(user_input)
LoopRespond ==
    /\ rpc = "respond"
    /\ ret.op = "is_closing_message"
    /\ GenerateResponse(ret.arg)

LoopBackendReturns(text) ==
    /\ rpc = "respond"
    /\ BackendReturns(text)

LoopBackendRaises(e) ==
    /\ rpc = "respond"
    /\ BackendRaises(e)

\* Ctrl-C while the backend is called: the KeyboardInterrupt leaves run_agent
\* (lines 396-397)
LoopInterrupt ==
    /\ rpc = "respond"
    /\ Interrupt

\* line 376: the response is printed, the loop goes on with the next input
LoopPrint ==
    /\ rpc = "respond"
    /\ pc = "idle"
    /\ ret.op = "generate_response"
    /\ rpc' = "input"
    /\ UNCHANGED <<sessionVars, harnessVars, gradioVars, inputs>>

NextLoop ==
    \/ \E client_key \in LoopClients : LoopConstruct(client_key)
    \/ LoopStart
    \/ \E line \in LoopInputs : LoopRead(line)
    \/ LoopCheck
    \/ LoopBranch
    \/ LoopRespond
    \/ \E text \in HarnessBackendTexts : LoopBackendReturns(text)
    \/ \E e \in BackendErrors : LoopBackendRaises(e)
    \/ LoopInterrupt
    \/ LoopPrint

SpecLoop == InitLoop /\ [][NextLoop]_vars

\* the lines that are not empty once stripped, stripped, in order
RECURSIVE NonEmpty(_)
NonEmpty(lines) ==
    IF lines = <<>> THEN <<>>
    ELSE IF strip(Head(lines)) = <<>> THEN NonEmpty(Tail(lines))
    ELSE <<strip(Head(lines))>> \o NonEmpty(Tail(lines))

\* the user turns of a history, in order
RECURSIVE UserTurns(_)
UserTurns(history) ==
    IF history = <<>> THEN <<>>
    ELSE IF IsPrefix(PREFIX_CLIENT, Head(history))
    THEN <<Head(history)>> \o UserTurns(Tail(history))
    ELSE UserTurns(Tail(history))

\* the number of texts of the sequence that are no identity challenge
RECURSIVE BackendTurns(_)
BackendTurns(texts) ==
    IF texts = <<>> THEN 0
    ELSE (IF is_robot_question(Head(texts)) THEN 0 ELSE 1) + BackendTurns(Tail(texts))

\* C27: the interactive loop ends at the first non-empty input that is a
\* closing signal; that input is not passed to generate_response (no backend
\* call, no history change) and nothing is read after it; empty inputs are
\* skipped; every other input is passed to generate_response once, in order.
C27_LoopEndsAtFirstClosingSignal ==
    (rpc \in {"input", "done"} /\ started) =>
        LET typed  == NonEmpty(inputs)
            closed == typed # <<>> /\ is_closing_message(typed[Len(typed)])
            passed == IF closed THEN SubSeq(typed, 1, Len(typed) - 1) ELSE typed
        IN  /\ (rpc = "done") = closed
            /\ \A k \in DOMAIN passed : ~is_closing_message(passed[k])
            /\ UserTurns(conversation_history) = [k \in DOMAIN passed |-> ClientTurn(passed[k])]
            /\ Len(conversation_history) = 1 + 2 * Len(passed)
            /\ backend_calls = BackendTurns(passed)
            /\ rpc = "done" => ~ENABLED NextLoop

\* the loop has ended at the third line, after an empty line and one turn
C27_Witness ==
    /\ rpc = "done"
    /\ Len(inputs) = 3
    /\ Len(NonEmpty(inputs)) = 2
    /\ Len(conversation_history) = 3

(***************************************************************************)
(* The shape of the history.                                               *)
(***************************************************************************)
\* C28: after start() on a fresh session and n completed generate_response
\* calls the history has exactly 1 + 2n turns: the greeting, then n pairs of a
\* user turn and the agent turn that follows it; each call adds exactly two
\* turns, whether it ended with a generated text, the denial or the apology.
C28_HistoryIsGreetingPlusPairs ==
    /\ (started /\ pc = "idle") =>
          /\ Len(conversation_history) = 1 + 2 * turns
          /\ IsPrefix(PREFIX_AGENT, conversation_history[1])
          /\ \A k \in 1..turns :
                /\ IsPrefix(PREFIX_CLIENT, conversation_history[2 * k])
                /\ IsPrefix(PREFIX_AGENT, conversation_history[2 * k + 1])
    /\ (ret.op = "generate_response" /\ ret.via \in {"preset", "backend", "except"}) =>
          /\ Len(conversation_history) = Len(at_entry.history) + 2
          /\ conversation_history[Len(conversation_history) - 1] = ClientTurn(ret.arg)
          /\ conversation_history[Len(conversation_history)] = AgentTurn(ret.value)

\* two turns, the first ended with the apology, the second with the denial
C28_Witness ==
    /\ started /\ pc = "idle"
    /\ turns = 2
    /\ ret.op = "generate_response" /\ ret.via = "preset"
    /\ Len(conversation_history) = 5
    /\ conversation_history[3] = AgentTurn(error_msg)

(***************************************************************************)
(* The run that has no test.                                               *)
(***************************************************************************)
\* main went into run_all_tests: the credential is there and the requested
\* client, if any, is configured
RunEntered ==
    /\ GEMINI_API_KEY # None
    /\ args.client # None => args.client \in {store_keys[i] : i \in DOMAIN store_keys}

\* C29: when a run produces no TestResult, analyze_results returns an empty
\* analysis and main still finishes (summary, report) and exits with a
\* defined status, without raising.
C29_EmptyRunFinishes ==
    (RunEntered /\ all_results = <<>>) =>
        /\ hpc = "analyzed" => DOMAIN analysis = {}
        /\ hpc # "raised"
        /\ hpc = "exited" => exit_status \in {0, 1}

=============================================================================
